---------------------------- MODULE Spec2Model ----------------------------
(***************************************************************************)
(* Model of the ICESat-2 water-level point-filtering engine                *)
(* (mountain-river-waterlevels/utils/data_processor.py): the three noise   *)
(* filters, the batch driver that applies one of them to a list of CSV     *)
(* files and merges the survivors, and the statistics of a dataset.        *)
(*                                                                         *)
(* Elevations are small integers, so every statistic the code computes in  *)
(* floating point (median, variance, interpolated percentile) is compared  *)
(* here exactly, after clearing denominators.  Floating-point rounding is  *)
(* not modelled.                                                           *)
(***************************************************************************)
EXTENDS Integers, Sequences, FiniteSets, TLC

(***************************************************************************)
(* Bounds of the model.                                                    *)
(***************************************************************************)
\* longest dataset handed to a filter
MaxRows == 3
\* longest list of CSV files handed to the batch driver
MaxFiles == 3
\* longest generated dataset handed to the percentile filter
MaxPercentileRows == 4
\* longest dataset handed to the statistics
MaxStatsRows == 5
\* largest max_retries handed to the download
MaxRetries == 3

(***************************************************************************)
(* Values and DataFrames.                                                   *)
(***************************************************************************)
\* float("nan"): a missing cell.  Every arithmetic use below is guarded by
\* isna, so the integer standing for it is never computed with.
NaN == -999

isna(v) == v = NaN

\* A pandas DataFrame: its column labels, and its rows in positional order,
\* each row with its index label (idx) and its cells.
DataFrame(cols, rows) == [cols |-> cols, rows |-> rows]

\* pd.DataFrame(): no columns, no rows
EmptyDataFrame == DataFrame({}, <<>>)

len(d) == Len(d.rows)

\* empty as a bug would have it: a test for "no columns" only
empty_no_columns(d) == d.cols = {}

\* DataFrame.empty: some axis has length 0
empty(d) == Len(d.rows) = 0 \/ d.cols = {}

\* df[col].values: the column in positional order
values(d, col) == [i \in 1..Len(d.rows) |-> d.rows[i].cell[col]]

\* the index labels in positional order
index(d) == [i \in 1..Len(d.rows) |-> d.rows[i].idx]

RECURSIVE SelectSeq2(_, _)
\* rows of s at the positions where keep is TRUE, order kept
SelectSeq2(s, keep) ==
    IF s = <<>> THEN <<>>
    ELSE LET rest == SelectSeq2(Tail(s), Tail(keep))
         IN IF Head(keep) THEN <<Head(s)>> \o rest ELSE rest

RECURSIVE Sum(_)
Sum(s) == IF s = <<>> THEN 0 ELSE Head(s) + Sum(Tail(s))

Squares(s) == [i \in 1..Len(s) |-> s[i] * s[i]]

\* the non-missing values of a sequence, order kept
dropna(s) == SelectSeq(s, LAMBDA v : ~isna(v))

RECURSIVE Insert(_, _)
\* v inserted into the ascending sequence s
Insert(s, v) ==
    IF s = <<>> THEN <<v>>
    ELSE IF v <= Head(s) THEN <<v>> \o s
    ELSE <<Head(s)>> \o Insert(Tail(s), v)

RECURSIVE Sorted(_)
\* s in ascending order
Sorted(s) == IF s = <<>> THEN <<>> ELSE Insert(Sorted(Tail(s)), Head(s))

(***************************************************************************)
(* The objects a call works on.  heap is the sequence of DataFrame objects *)
(* alive during a call; a reference is a position in it.  Reference 1 is    *)
(* the caller's df.                                                        *)
(***************************************************************************)
\* copy as a bug would have it: df_work = df, a second name for the caller's
\* object
copy_alias(heap, r) == [heap |-> heap, ref |-> r]

\* df.copy(): a new object with the same content
copy(heap, r) == [heap |-> Append(heap, heap[r]), ref |-> Len(heap) + 1]

\* the permutations p of 1..n with p[k] the position (in d) of the row that
\* comes k-th: ascending by column col, missing values last.  The default
\* sort kind (quicksort) is not stable, so rows with equal keys may come in
\* any order.
SortPerms(d, col) ==
    LET n == Len(d.rows)
        key(i) == d.rows[i].cell[col]
        before(i, j) == \/ isna(key(j))
                        \/ ~isna(key(i)) /\ key(i) <= key(j)
    IN {p \in [1..n -> 1..n] :
          /\ \A a, b \in 1..n : a # b => p[a] # p[b]
          /\ \A a \in 1..n : a < n => before(p[a], p[a + 1])}

\* df.sort_values(col) under permutation p: a new object, rows reordered,
\* each row keeping its index label
sort_values(heap, r, p) ==
    LET d == heap[r]
        s == DataFrame(d.cols, [k \in 1..Len(d.rows) |-> d.rows[p[k]]])
    IN [heap |-> Append(heap, s), ref |-> Len(heap) + 1]

\* df[col] = vals: assignment into the object itself
setitem(heap, r, col, vals) ==
    LET d == heap[r]
        cols2 == d.cols \cup {col}
        row2(i) == [idx |-> d.rows[i].idx,
                    cell |-> [c \in cols2 |->
                                IF c = col THEN vals[i] ELSE d.rows[i].cell[c]]]
    IN [heap EXCEPT ![r] = DataFrame(cols2, [i \in 1..Len(d.rows) |-> row2(i)])]

\* df[mask] with a positional (numpy) boolean mask: a new DataFrame
getitem_mask(d, mask) == DataFrame(d.cols, SelectSeq2(d.rows, mask))

\* df.drop(columns=[col], errors="ignore")
drop(d, col) ==
    LET cols2 == d.cols \ {col}
    IN DataFrame(cols2,
                 [i \in 1..Len(d.rows) |->
                    [idx |-> d.rows[i].idx,
                     cell |-> [c \in cols2 |-> d.rows[i].cell[c]]]])

(***************************************************************************)
(* What a filter call produces.                                            *)
(***************************************************************************)
\* Returned as a bug would have it: return df_filtered, kept, total
Returned_swapped(f, t, k) ==
    [status |-> "returned", filtered |-> f, total |-> k, kept |-> t]

\* return (filtered, total, kept)
Returned(f, t, k) == [status |-> "returned", filtered |-> f, total |-> t, kept |-> k]

\* the call ended with an exception
Raised == [status |-> "raised", filtered |-> EmptyDataFrame, total |-> 0, kept |-> 0]

NoReturn == [status |-> "none", filtered |-> EmptyDataFrame, total |-> 0, kept |-> 0]

\* One way a call can end: the caller's object afterwards, what was returned,
\* and the call's working table and cluster labels (both empty when the call
\* ended before building them).
Outcome(heap, ret, w, lab) == [df |-> heap[1], ret |-> ret, work |-> w, labels |-> lab]

(***************************************************************************)
(* method_middle_percentile                                                *)
(***************************************************************************)
\* percentile100 as a bug would have it: the order statistic below the
\* virtual index, without interpolation (method="lower")
percentile100_lower(x, p) ==
    LET s == Sorted(x)
        n == Len(s)
        lo == ((n - 1) * p) \div 100
    IN 100 * s[lo + 1]

\* 100 * np.percentile(x, p) for a non-empty x without missing values and
\* 0 <= p <= 100: linear interpolation between the two order statistics
\* around the virtual index (n - 1) * p / 100
percentile100(x, p) ==
    LET s == Sorted(x)
        n == Len(s)
        pos == (n - 1) * p
        lo == pos \div 100
        g == pos % 100
        hi == IF lo + 1 < n THEN lo + 1 ELSE lo
    IN 100 * s[lo + 1] + g * (s[hi + 1] - s[lo + 1])

\* percentile_mask as a bug would have it: > and < instead of >= and <=
percentile_mask_open(h, ql100, qu100) ==
    [i \in 1..Len(h) |-> /\ ~isna(h[i])
                         /\ 100 * h[i] > ql100
                         /\ 100 * h[i] < qu100]

\* percentile_mask as a bug would have it: the filter inverted, the rows
\* outside the interval kept
percentile_mask_outside(h, ql100, qu100) ==
    [i \in 1..Len(h) |-> /\ ~isna(h[i])
                         /\ (100 * h[i] <= ql100 \/ 100 * h[i] >= qu100)]

\* (df[ht] >= q_lower) & (df[ht] <= q_upper), with the percentiles times 100;
\* a comparison with a missing value is False
percentile_mask(h, ql100, qu100) ==
    [i \in 1..Len(h) |-> /\ ~isna(h[i])
                         /\ 100 * h[i] >= ql100
                         /\ 100 * h[i] <= qu100]

\* The ways a call method_middle_percentile(df, lower_percentile,
\* upper_percentile) can end, df being heap[1].
method_middle_percentile(heap, lower_percentile, upper_percentile) ==
    LET df == heap[1]
        none == DataFrame(df.cols, <<>>)
    IN IF empty(df) \/ "ht_water_surf" \notin df.cols
       THEN {Outcome(heap, Returned(EmptyDataFrame, 0, 0), EmptyDataFrame, <<>>)}
       ELSE LET total == len(df)
                h == values(df, "ht_water_surf")
                heights == dropna(h)
            IN IF \/ lower_percentile < 0 \/ lower_percentile > 100
                  \/ upper_percentile < 0 \/ upper_percentile > 100
               THEN \* np.percentile: "Percentiles must be in the range [0, 100]"
                    {Outcome(heap, Raised, EmptyDataFrame, <<>>)}
               ELSE IF heights = <<>>
               THEN \* np.percentile of an empty array: nan (and then no row
                    \* passes) or an IndexError, depending on the numpy build
                    {Outcome(heap, Raised, EmptyDataFrame, <<>>),
                     Outcome(heap, Returned(none, total, 0), EmptyDataFrame, <<>>)}
               ELSE LET q_lower == percentile100(heights, lower_percentile)
                        q_upper == percentile100(heights, upper_percentile)
                        df_filtered == getitem_mask(df, percentile_mask(h, q_lower, q_upper))
                        kept == len(df_filtered)
                    IN {Outcome(heap, Returned(df_filtered, total, kept),
                                EmptyDataFrame, <<>>)}

(***************************************************************************)
(* method_sliding_median                                                   *)
(***************************************************************************)
\* twice the median of a non-empty sequence without missing values
median2(x) ==
    LET s == Sorted(x)
        c == Len(s)
    IN IF c % 2 = 1 THEN 2 * s[(c + 1) \div 2]
       ELSE s[c \div 2] + s[c \div 2 + 1]

\* c * sum(x^2) - sum(x)^2: the variance of x times c^2 (population, np.std)
\* or times c * (c - 1) (sample, rolling().std())
var_num(x) == Len(x) * Sum(Squares(x)) - Sum(x) * Sum(x)

\* global_mask as a bug would have it: the sample standard deviation
\* (ddof = 1) in place of np.std
global_mask_sample_std(heights, threshold_std) ==
    LET n == Len(heights)
        valid == dropna(heights)
    IN [i \in 1..n |->
          /\ Len(valid) = n
          /\ n >= 2
          /\ (2 * heights[i] - median2(heights)) * (2 * heights[i] - median2(heights))
                * n * (n - 1)
               <= 4 * threshold_std * threshold_std * var_num(heights)]

\* np.abs(heights - median) <= threshold_std * std with the global median and
\* np.std (ddof = 0) of heights; one missing height makes both nan and every
\* comparison False.  threshold_std >= 0.
global_mask(heights, threshold_std) ==
    LET n == Len(heights)
        valid == dropna(heights)
    IN [i \in 1..n |->
          /\ Len(valid) = n
          /\ (2 * heights[i] - median2(heights)) * (2 * heights[i] - median2(heights)) * n * n
               <= 4 * threshold_std * threshold_std * var_num(heights)]

\* the values rolling(window, center=True) sees at position i (1-based) of
\* heights: positions i + offset - window + 1 .. i + offset, cut at both ends
\* of the sequence, offset = (window - 1) // 2
rolling_window(heights, window_size, i) ==
    LET n == Len(heights)
        offset == (window_size - 1) \div 2
        last == IF i + offset > n THEN n ELSE i + offset
        first == IF i + offset - window_size + 1 < 1 THEN 1
                 ELSE i + offset - window_size + 1
    IN [k \in 1..(last - first + 1) |-> heights[first + k - 1]]

\* rolling_mask as a bug would have it: deviation >= threshold, the outliers
\* kept
rolling_mask_inverted(heights, window_size, threshold_std) ==
    [i \in 1..Len(heights) |->
        LET valid == dropna(rolling_window(heights, window_size, i))
            c == Len(valid)
        IN /\ ~isna(heights[i])
           /\ c >= 2
           /\ (2 * heights[i] - median2(valid)) * (2 * heights[i] - median2(valid))
                 * c * (c - 1)
                >= 4 * threshold_std * threshold_std * var_num(valid)]

\* deviation <= threshold at position i: |heights[i] - rolling median| <=
\* threshold_std * rolling std.  min_periods = 1: the statistics are taken over
\* the window's non-missing values; the sample std of fewer than two values is
\* nan, and a comparison with nan is False.
rolling_mask(heights, window_size, threshold_std) ==
    [i \in 1..Len(heights) |->
        LET valid == dropna(rolling_window(heights, window_size, i))
            c == Len(valid)
        IN /\ ~isna(heights[i])
           /\ c >= 2
           /\ (2 * heights[i] - median2(valid)) * (2 * heights[i] - median2(valid))
                 * c * (c - 1)
                <= 4 * threshold_std * threshold_std * var_num(valid)]

\* df_work[mask] where mask is a boolean Series indexed 0..n-1: the key is
\* aligned to df_work's index labels before it is applied, so the row with
\* index label L is kept iff mask[L] (position L + 1 here).
getitem_series(d, mask) ==
    DataFrame(d.cols,
              SelectSeq2(d.rows, [k \in 1..Len(d.rows) |-> mask[d.rows[k].idx + 1]]))

\* a label of d that the mask's index 0..n-1 lacks: IndexingError
unalignable(d) == \E k \in 1..Len(d.rows) : d.rows[k].idx \notin 0..(Len(d.rows) - 1)

\* lines 122-151, on the working table heap[r]
sliding_median_body(heap, r, total, window_size, threshold_std) ==
    LET df_work == heap[r]
        heights == values(df_work, "ht_water_surf")
    IN IF Len(heights) < window_size
       THEN LET df_filtered == getitem_mask(df_work, global_mask(heights, threshold_std))
            IN Outcome(heap, Returned(df_filtered, total, len(df_filtered)), df_work, <<>>)
       ELSE IF window_size <= 0
       THEN \* rolling(): min_periods 1 must be <= window (or, below 0,
            \* window must be an integer 0 or greater): ValueError
            Outcome(heap, Raised, df_work, <<>>)
       ELSE IF unalignable(df_work)
       THEN Outcome(heap, Raised, df_work, <<>>)
       ELSE LET mask == rolling_mask(heights, window_size, threshold_std)
                df_filtered == getitem_series(df_work, mask)
                kept == len(df_filtered)
            IN Outcome(heap, Returned(df_filtered, total, kept), df_work, <<>>)

\* The ways a call method_sliding_median(df, window_size, threshold_std) can
\* end, df being heap[1]; threshold_std >= 0.
method_sliding_median(heap, window_size, threshold_std) ==
    LET df == heap[1]
    IN IF empty(df) \/ "ht_water_surf" \notin df.cols
       THEN {Outcome(heap, Returned(EmptyDataFrame, 0, 0), EmptyDataFrame, <<>>)}
       ELSE LET total == len(df)
                c == copy(heap, 1)
            IN IF "delta_time" \in c.heap[c.ref].cols
               THEN {LET s == sort_values(c.heap, c.ref, p)
                     IN sliding_median_body(s.heap, s.ref, total, window_size, threshold_std) :
                        p \in SortPerms(c.heap[c.ref], "delta_time")}
               ELSE {sliding_median_body(c.heap, c.ref, total, window_size, threshold_std)}

\* The ways a call method_sliding_median(df, window_size, threshold_std) can
\* end when the sort puts the rows in the order given by order, a sequence of
\* index labels: the outcomes o of method_sliding_median with
\* index(o.work) = order, reached without trying the other orders.
method_sliding_median_in_order(heap, window_size, threshold_std, order) ==
    LET df == heap[1]
    IN IF empty(df) \/ "ht_water_surf" \notin df.cols
       THEN {o \in method_sliding_median(heap, window_size, threshold_std) :
               index(o.work) = order}
       ELSE LET total == len(df)
                c == copy(heap, 1)
            IN IF "delta_time" \in c.heap[c.ref].cols
               THEN IF \/ Len(order) # total
                       \/ \E k \in 1..total : \A i \in 1..total : df.rows[i].idx # order[k]
                    THEN {}
                    ELSE LET p == [k \in 1..total |->
                                     CHOOSE i \in 1..total : df.rows[i].idx = order[k]]
                             s == sort_values(c.heap, c.ref, p)
                         IN IF p \in SortPerms(c.heap[c.ref], "delta_time")
                            THEN {sliding_median_body(s.heap, s.ref, total, window_size,
                                                      threshold_std)}
                            ELSE {}
               ELSE {o \in {sliding_median_body(c.heap, c.ref, total, window_size,
                                                threshold_std)} :
                       index(o.work) = order}

(***************************************************************************)
(* method_dbscan_elliptical                                                *)
(***************************************************************************)
\* Points i and j of X = (along_track, ht * eps_along / eps_height) lie within
\* eps_along of each other (Euclidean; both sides times eps_height^2)
neighbours(h, eps_along, eps_height, i, j) ==
    (i - j) * (i - j) * eps_height * eps_height
      + (h[i] - h[j]) * (h[i] - h[j]) * eps_along * eps_along
    <= eps_along * eps_along * eps_height * eps_height

\* DBSCAN's core samples: at least min_samples points (itself included)
\* within eps
core_samples(h, eps_along, eps_height, min_samples) ==
    {i \in 1..Len(h) :
        Cardinality({j \in 1..Len(h) : neighbours(h, eps_along, eps_height, i, j)})
            >= min_samples}

RECURSIVE Grow(_, _, _, _, _)
\* the core samples reachable from S through core samples
Grow(S, core, h, eps_along, eps_height) ==
    LET S2 == S \cup {j \in core : \E i \in S : neighbours(h, eps_along, eps_height, i, j)}
    IN IF S2 = S THEN S ELSE Grow(S2, core, h, eps_along, eps_height)

SetMin(S) == CHOOSE x \in S : \A y \in S : x <= y

\* DBSCAN(eps=eps_along, min_samples=min_samples).fit_predict(X): clusters are
\* grown one after the other from the unlabelled core sample of lowest
\* position and numbered 0, 1, ... in that order; a non-core point within eps
\* of a core sample joins the first cluster that reaches it; every other
\* point is noise, -1.
fit_predict(h, eps_along, eps_height, min_samples) ==
    LET core == core_samples(h, eps_along, eps_height, min_samples)
        seed(i) == SetMin(Grow({i}, core, h, eps_along, eps_height))
        seeds == {seed(i) : i \in core}
        number(i) == Cardinality({s \in seeds : s < seed(i)})
        near(i) == {j \in core : neighbours(h, eps_along, eps_height, i, j)}
    IN [i \in 1..Len(h) |->
          IF i \in core THEN number(i)
          ELSE IF near(i) # {} THEN SetMin({number(j) : j \in near(i)})
          ELSE -1]

\* cluster_sizes[label]
cluster_size(labels, label) == Cardinality({i \in 1..Len(labels) : labels[i] = label})

\* main_clusters as a bug would have it: min instead of max
main_clusters_smallest(labels) ==
    LET unique_labels == {labels[i] : i \in 1..Len(labels)} \ {-1}
    IN {c \in unique_labels :
          \A c2 \in unique_labels : cluster_size(labels, c) <= cluster_size(labels, c2)}

\* max(cluster_sizes, key=cluster_sizes.get): a label of greatest size.  Among
\* labels of equal size the one met first when iterating over a set wins,
\* which no rule of the code fixes: any of them.
main_clusters(labels) ==
    LET unique_labels == {labels[i] : i \in 1..Len(labels)} \ {-1}
    IN {c \in unique_labels :
          \A c2 \in unique_labels : cluster_size(labels, c2) <= cluster_size(labels, c)}

\* dbscan_body as a bug would have it: with fewer rows than min_samples it
\* returns pd.DataFrame(), 0, 0
dbscan_body_few_points_untotalled(heap, r, total, eps_along, eps_height, min_samples) ==
    IF len(heap[r]) < min_samples
    THEN {Outcome(heap, Returned(EmptyDataFrame, 0, 0), heap[r], <<>>)}
    ELSE LET n == len(heap[r])
             heap2 == setitem(heap, r, "along_track", [i \in 1..n |-> i - 1])
             df_work == heap2[r]
             h == values(df_work, "ht_water_surf")
         IN IF eps_height = 0
            THEN {Outcome(heap2, Raised, df_work, <<>>)}
            ELSE IF \/ eps_along <= 0
                    \/ min_samples <= 0
                    \/ \E i \in 1..n : isna(h[i])
            THEN {Outcome(heap2, Returned(EmptyDataFrame, total, 0), df_work, <<>>)}
            ELSE LET labels == fit_predict(h, eps_along, eps_height, min_samples)
                 IN IF main_clusters(labels) = {}
                    THEN {Outcome(heap2, Returned(EmptyDataFrame, total, 0), df_work, labels)}
                    ELSE {LET picked == getitem_mask(df_work,
                                           [i \in 1..n |-> labels[i] = main_cluster])
                              df_filtered == drop(picked, "along_track")
                              kept == len(df_filtered)
                          IN Outcome(heap2, Returned(df_filtered, total, kept), df_work, labels) :
                             main_cluster \in main_clusters(labels)}

\* lines 51-91, on the working table heap[r]: the ways the call can end
dbscan_body(heap, r, total, eps_along, eps_height, min_samples) ==
    IF len(heap[r]) < min_samples
    THEN {Outcome(heap, Returned(EmptyDataFrame, total, 0), heap[r], <<>>)}
    ELSE LET n == len(heap[r])
             heap2 == setitem(heap, r, "along_track", [i \in 1..n |-> i - 1])
             df_work == heap2[r]
             h == values(df_work, "ht_water_surf")
         IN IF eps_height = 0
            THEN \* scale_factor = eps_along / eps_height: ZeroDivisionError
                 {Outcome(heap2, Raised, df_work, <<>>)}
            ELSE IF \/ eps_along <= 0
                    \/ min_samples <= 0
                    \/ \E i \in 1..n : isna(h[i])
            THEN \* DBSCAN rejects the parameters or the missing values:
                 \* caught by the except branch
                 {Outcome(heap2, Returned(EmptyDataFrame, total, 0), df_work, <<>>)}
            ELSE LET labels == fit_predict(h, eps_along, eps_height, min_samples)
                 IN IF main_clusters(labels) = {}
                    THEN {Outcome(heap2, Returned(EmptyDataFrame, total, 0), df_work, labels)}
                    ELSE {LET picked == getitem_mask(df_work,
                                           [i \in 1..n |-> labels[i] = main_cluster])
                              df_filtered == drop(picked, "along_track")
                              kept == len(df_filtered)
                          IN Outcome(heap2, Returned(df_filtered, total, kept), df_work, labels) :
                             main_cluster \in main_clusters(labels)}

\* The ways a call method_dbscan_elliptical(df, eps_along, eps_height,
\* min_samples) can end, df being heap[1].
method_dbscan_elliptical(heap, eps_along, eps_height, min_samples) ==
    LET df == heap[1]
    IN IF empty(df) \/ "ht_water_surf" \notin df.cols
       THEN {Outcome(heap, Returned(EmptyDataFrame, 0, 0), EmptyDataFrame, <<>>)}
       ELSE LET total == len(df)
                c == copy(heap, 1)
            IN IF "delta_time" \in c.heap[c.ref].cols
               THEN UNION {LET s == sort_values(c.heap, c.ref, p)
                           IN dbscan_body(s.heap, s.ref, total, eps_along, eps_height, min_samples) :
                              p \in SortPerms(c.heap[c.ref], "delta_time")}
               ELSE dbscan_body(c.heap, c.ref, total, eps_along, eps_height, min_samples)

(***************************************************************************)
(* calculate_water_level_statistics                                        *)
(***************************************************************************)
\* the number num / den; 0 / 0 stands for nan
Ratio(num, den) == [num |-> num, den |-> den]

NotANumber == Ratio(0, 0)

\* 100 * heights.quantile(p / 100): pandas interpolates linearly, as
\* np.percentile does; nan for no values
quantile100(x, p) == IF x = <<>> THEN NaN ELSE percentile100(x, p)

\* iqr100 as a bug would have it: quantile(0.25) - quantile(0.75)
iqr100_reversed(x) ==
    IF x = <<>> THEN NaN ELSE quantile100(x, 25) - quantile100(x, 75)

\* 100 * (heights.quantile(0.75) - heights.quantile(0.25))
iqr100(x) ==
    IF x = <<>> THEN NaN ELSE quantile100(x, 75) - quantile100(x, 25)

\* middle_heights as a bug would have it: the slice's end included
\* (iloc[q25_idx:q75_idx + 1])
middle_heights_end_included(x) ==
    LET n == Len(x)
        q25_idx == n \div 4
        q75_idx == (3 * n) \div 4
        sorted_heights == Sorted(x)
        last == IF q75_idx + 1 > n THEN n ELSE q75_idx + 1
    IN [k \in 1..(last - q25_idx) |-> sorted_heights[q25_idx + k]]

\* sorted_heights.iloc[q25_idx:q75_idx] with q25_idx = int(n * 0.25) and
\* q75_idx = int(n * 0.75), 0-based and the end excluded
middle_heights(x) ==
    LET n == Len(x)
        q25_idx == n \div 4
        q75_idx == (3 * n) \div 4
        sorted_heights == Sorted(x)
    IN [k \in 1..(q75_idx - q25_idx) |-> sorted_heights[q25_idx + k]]

\* Series.mean()
mean(x) == IF x = <<>> THEN NotANumber ELSE Ratio(Sum(x), Len(x))

\* The dict calculate_water_level_statistics(d) returns: <<>> is {}.  Values
\* are exact: mean and middle_50_mean as ratios, median2 twice the median,
\* variance the square of std (sample, ddof = 1) as a ratio, q25, q75 and iqr
\* times 100 (hence the names median2, q25_100, ...).
calculate_water_level_statistics(d) ==
    IF empty(d) \/ "ht_water_surf" \notin d.cols
    THEN <<>>
    ELSE LET heights == dropna(values(d, "ht_water_surf"))
             n == Len(heights)
         IN [count |-> n,
             mean |-> mean(heights),
             median2 |-> IF n = 0 THEN NaN ELSE median2(heights),
             variance |-> IF n < 2 THEN NotANumber
                          ELSE Ratio(var_num(heights), n * (n - 1)),
             min |-> IF n = 0 THEN NaN ELSE Sorted(heights)[1],
             max |-> IF n = 0 THEN NaN ELSE Sorted(heights)[n],
             q25_100 |-> quantile100(heights, 25),
             q75_100 |-> quantile100(heights, 75),
             iqr_100 |-> iqr100(heights),
             middle_50_mean |-> IF n >= 4 THEN mean(middle_heights(heights))
                                ELSE mean(heights)]

(***************************************************************************)
(* State.                                                                   *)
(***************************************************************************)
VARIABLES
    \* --- one call of a filter ---
    df,                \* the caller's DataFrame object (its content now)
    given,             \* its content when the call was made
    call,              \* the call made: method and parameters
    ret,               \* what the call returned, or that it raised
    work,              \* the call's df_work (sorted, along_track added)
    labels,            \* the cluster labels DBSCAN gave df_work's rows
    call2,             \* a second call on the same dataset, other parameters
    ret2,              \* what the second call returned, or that it raised
    stats,             \* what calculate_water_level_statistics(df) returned
    \* --- the files of a batch handled independently of each other ---
    contrib,           \* contrib[i]: what file i alone adds, once it is handled
    completion,        \* the files' positions in the order they were handled
    \* --- the Streamlit session across script runs ---
    session_state,     \* st.session_state: the keys present and their values
    ui_run,            \* what the latest script run did
    \* --- one call of download_icesat2_data ---
    max_retries,
    retry_delay,
    attempt,           \* the for loop's variable; -1 before the loop
    download_log,      \* the order/download attempts and sleeps made, in order
    download_ret,      \* what the call returned
    \* --- one run of batch_process_csv_files ---
    csv_files,         \* the files' contents, in list order
    method,            \* "dbscan", "sliding_median", "percentile", or other
    method_params,     \* the chosen method's parameters
    file_idx,          \* files handled so far (the loop's position)
    all_filtered_data, \* the non-empty filtered DataFrames, in append order
    total_points,
    total_kept,
    progress,          \* the values handed to file_progress.progress, in order
    file_results,      \* what happened to each handled file, in order
    attempts,          \* attempts[i]: how often file i was read
    merged_df,         \* the returned merged DataFrame
    phase              \* "call", "returned", "again", "loop", "done"

filter_vars == <<df, given, call, ret, work, labels>>

batch_vars == <<csv_files, method, method_params, file_idx, all_filtered_data,
                total_points, total_kept, progress, file_results, attempts, merged_df>>

parallel_vars == <<contrib, completion>>

session_vars == <<session_state, ui_run>>

download_vars == <<max_retries, retry_delay, attempt, download_log, download_ret>>

extra_vars == <<contrib, completion, session_state, ui_run, max_retries, retry_delay,
                attempt, download_log, download_ret>>

more_vars == <<call2, ret2, stats, contrib, completion, session_state, ui_run,
               max_retries, retry_delay, attempt, download_log, download_ret>>

vars == <<df, given, call, ret, work, labels, call2, ret2, stats, contrib, completion,
          session_state, ui_run, max_retries, retry_delay, attempt, download_log,
          download_ret,
          csv_files, method,
          method_params, file_idx, all_filtered_data, total_points, total_kept,
          progress, file_results, attempts, merged_df, phase>>

(***************************************************************************)
(* Inputs.                                                                  *)
(***************************************************************************)
\* elevations (ht_water_surf), missing included
Heights == {0, 1, NaN}

\* acquisition times (delta_time): equal times and out-of-order rows occur
Times == {0, 1}

\* the column sets of the input tables: elevation and an opaque column;
\* the same with delta_time; the same with a column that happens to be
\* named along_track; no elevation column
Schemas == {{"ht_water_surf", "lat"},
            {"ht_water_surf", "lat", "delta_time"},
            {"ht_water_surf", "lat", "along_track"},
            {"lat"}}

\* The tables of n rows with columns cols as pd.read_csv builds them: index
\* labels 0..n-1; lat and along_track hold a mark of the row.
Tables(n, cols) ==
    LET HeightColumns == IF "ht_water_surf" \in cols THEN [1..n -> Heights]
                         ELSE {[i \in 1..n |-> NaN]}
        TimeColumns == IF "delta_time" \in cols THEN [1..n -> Times]
                       ELSE {[i \in 1..n |-> NaN]}
        Cell(c, i, hs, ts) == IF c = "ht_water_surf" THEN hs[i]
                              ELSE IF c = "delta_time" THEN ts[i]
                              ELSE IF c = "lat" THEN 10 + i
                              ELSE 50 + i
    IN {DataFrame(cols, [i \in 1..n |->
                           [idx |-> i - 1,
                            cell |-> [c \in cols |-> Cell(c, i, hs, ts)]]]) :
          hs \in HeightColumns, ts \in TimeColumns}

Datasets == UNION {Tables(n, cols) : n \in 0..MaxRows, cols \in Schemas}

EpsAlong == {0, 1, 2}
EpsHeight == {0, 1}
MinSamples == {1, 2, 3}
WindowSizes == {0, 1, 2, 3, 4}
Thresholds == {0, 1, 3}
LowerPercentiles == {0, 25, 50}
UpperPercentiles == {50, 75, 100, 125}

\* calculate_water_level_statistics has not been called
NoStats == [status |-> "none", record |-> <<>>]

\* no file handled on its own
ParallelIdle ==
    /\ contrib = <<>>
    /\ completion = <<>>

\* no session
SessionIdle ==
    /\ session_state = <<>>
    /\ ui_run = <<"none">>

\* download_icesat2_data has not been called
DownloadIdle ==
    /\ max_retries = 0
    /\ retry_delay = 0
    /\ attempt = -1
    /\ download_log = <<>>
    /\ download_ret = "none"

ExtraIdle == ParallelIdle /\ SessionIdle /\ DownloadIdle

\* no second call, no statistics yet
MoreIdle ==
    /\ call2 = <<"none">>
    /\ ret2 = NoReturn
    /\ stats = NoStats
    /\ ExtraIdle

BatchIdle ==
    /\ csv_files = <<>>
    /\ method = "none"
    /\ method_params = <<>>
    /\ file_idx = 0
    /\ all_filtered_data = <<>>
    /\ total_points = 0
    /\ total_kept = 0
    /\ progress = <<>>
    /\ file_results = <<>>
    /\ attempts = <<>>
    /\ merged_df = EmptyDataFrame

(***************************************************************************)
(* A filter called on a dataset.                                            *)
(***************************************************************************)
Init ==
    /\ df \in Datasets
    /\ given = df
    /\ call = <<"none">>
    /\ ret = NoReturn
    /\ work = EmptyDataFrame
    /\ labels = <<>>
    /\ phase = "call"
    /\ MoreIdle
    /\ BatchIdle

\* the call ends as outcome o
Ends(c, o) ==
    /\ call' = c
    /\ df' = o.df
    /\ ret' = o.ret
    /\ work' = o.work
    /\ labels' = o.labels
    /\ phase' = "returned"
    /\ UNCHANGED given
    /\ UNCHANGED more_vars
    /\ UNCHANGED batch_vars

CallDbscan ==
    /\ phase = "call"
    /\ \E eps_along \in EpsAlong, eps_height \in EpsHeight, min_samples \in MinSamples :
         \E o \in method_dbscan_elliptical(<<df>>, eps_along, eps_height, min_samples) :
            Ends(<<"dbscan", eps_along, eps_height, min_samples>>, o)

CallSlidingMedian ==
    /\ phase = "call"
    /\ \E window_size \in WindowSizes, threshold_std \in Thresholds :
         \E o \in method_sliding_median(<<df>>, window_size, threshold_std) :
            Ends(<<"sliding_median", window_size, threshold_std>>, o)

CallPercentile ==
    /\ phase = "call"
    /\ \E lower_percentile \in LowerPercentiles, upper_percentile \in UpperPercentiles :
         \E o \in method_middle_percentile(<<df>>, lower_percentile, upper_percentile) :
            Ends(<<"percentile", lower_percentile, upper_percentile>>, o)

Next == CallDbscan \/ CallSlidingMedian \/ CallPercentile

Spec == Init /\ [][Next]_vars

(***************************************************************************)
(* batch_process_csv_files                                                 *)
(***************************************************************************)
\* A CSV file on disk: one pd.read_csv cannot parse, or the table it holds.
Unreadable == [readable |-> FALSE, table |-> EmptyDataFrame]

Csv(t) == [readable |-> TRUE, table |-> t]

\* the table with the given elevations and, when times is not empty, the
\* given delta_time column
TableOf(hs, ts) ==
    LET cols == IF ts = <<>> THEN {"ht_water_surf", "lat"}
                ELSE {"ht_water_surf", "lat", "delta_time"}
    IN DataFrame(cols,
                 [i \in 1..Len(hs) |->
                    [idx |-> i - 1,
                     cell |-> [c \in cols |->
                                 IF c = "ht_water_surf" THEN hs[i]
                                 ELSE IF c = "delta_time" THEN ts[i]
                                 ELSE 10 + i]]])

\* The files a batch is drawn from: an unparsable one, a header without rows,
\* a table without elevation column, an all-missing elevation column, and
\* tables of which a filter keeps all, some or none of the rows (one of them
\* out of time order).
CsvCatalogue ==
    {Unreadable,
     Csv(TableOf(<<>>, <<>>)),
     Csv(DataFrame({"lat"}, <<[idx |-> 0, cell |-> [lat |-> 11]]>>)),
     Csv(TableOf(<<NaN>>, <<>>)),
     Csv(TableOf(<<0, 0>>, <<>>)),
     Csv(TableOf(<<0, 1>>, <<>>)),
     Csv(TableOf(<<0, 1, 1>>, <<>>)),
     Csv(TableOf(<<1, 1, 0>>, <<2, 1, 0>>))}

\* (method, method_params) of a batch: each filter with parameters it accepts,
\* the percentile filter with a bound np.percentile rejects, and a method
\* name the driver does not know
BatchMethods ==
    {<<"dbscan", [eps_along |-> 1, eps_height |-> 1, min_samples |-> 2]>>,
     <<"sliding_median", [window_size |-> 2, threshold_std |-> 1]>>,
     <<"percentile", [lower_percentile |-> 25, upper_percentile |-> 75]>>,
     <<"percentile", [lower_percentile |-> 0, upper_percentile |-> 125]>>,
     <<"median", [window_size |-> 2]>>}

\* file_progress.progress(x): x = num / den
Fraction(num, den) == [num |-> num, den |-> den]

\* what happened to one file: kind is "read_error", "empty", "unknown_method",
\* "filter_error" or "filtered"; ret is the filter's return when it returned
FileResult(kind, r) == [kind |-> kind, ret |-> r]

\* the accumulators of the loop
Acc(a, p, k) == [all_filtered_data |-> a, total_points |-> p, total_kept |-> k]

\* lines 226-239: the ways the chosen filter's call on d can end; no call at
\* all for a method name that is none of the three
select_method(m, params, d) ==
    IF m = "dbscan"
    THEN method_dbscan_elliptical(<<d>>, params.eps_along, params.eps_height,
                                  params.min_samples)
    ELSE IF m = "sliding_median"
    THEN method_sliding_median(<<d>>, params.window_size, params.threshold_std)
    ELSE IF m = "percentile"
    THEN method_middle_percentile(<<d>>, params.lower_percentile,
                                  params.upper_percentile)
    ELSE {}

\* accumulate as a bug would have it: the count returned as total added to
\* total_kept
accumulate_total_as_kept(acc, r) ==
    IF ~empty(r.filtered)
    THEN Acc(Append(acc.all_filtered_data, r.filtered),
             acc.total_points + r.total,
             acc.total_kept + r.total)
    ELSE Acc(acc.all_filtered_data, acc.total_points + r.total, acc.total_kept)

\* accumulate as a bug would have it: no else branch, a rejected file's
\* total is lost
accumulate_drop_rejected(acc, r) ==
    IF ~empty(r.filtered)
    THEN Acc(Append(acc.all_filtered_data, r.filtered),
             acc.total_points + r.total,
             acc.total_kept + r.kept)
    ELSE acc

\* accumulate as a bug would have it: insert(0, filtered_df) instead of append
accumulate_prepend(acc, r) ==
    IF ~empty(r.filtered)
    THEN Acc(<<r.filtered>> \o acc.all_filtered_data,
             acc.total_points + r.total,
             acc.total_kept + r.kept)
    ELSE Acc(acc.all_filtered_data, acc.total_points + r.total, acc.total_kept)

\* accumulate as a bug would have it: a frame equal to one an earlier file
\* added is not added again (the files share the list's state)
accumulate_skip_duplicates(acc, r) ==
    IF ~empty(r.filtered)
         /\ \A i \in 1..Len(acc.all_filtered_data) : acc.all_filtered_data[i] # r.filtered
    THEN Acc(Append(acc.all_filtered_data, r.filtered),
             acc.total_points + r.total,
             acc.total_kept + r.kept)
    ELSE Acc(acc.all_filtered_data, acc.total_points + r.total, acc.total_kept)

\* lines 241-246: a filter's return added to the accumulators
accumulate(acc, r) ==
    IF ~empty(r.filtered)
    THEN Acc(Append(acc.all_filtered_data, r.filtered),
             acc.total_points + r.total,
             acc.total_kept + r.kept)
    ELSE Acc(acc.all_filtered_data, acc.total_points + r.total, acc.total_kept)

\* line 252, reached unless the iteration ended with continue
report(prog, idx, n) == Append(prog, Fraction(idx + 1, n))

\* iteration as a bug would have it: total_points += len(df) right after the
\* read, so that a file whose filter raises is counted
iteration_counts_before_filter(f, idx, n, m, params, acc, prog) ==
    IF ~f.readable
    THEN {[acc |-> acc, progress |-> report(prog, idx, n),
           result |-> FileResult("read_error", NoReturn)]}
    ELSE IF empty(f.table)
    THEN {[acc |-> acc, progress |-> prog, result |-> FileResult("empty", NoReturn)]}
    ELSE IF m \notin {"dbscan", "sliding_median", "percentile"}
    THEN {[acc |-> acc, progress |-> prog,
           result |-> FileResult("unknown_method", NoReturn)]}
    ELSE {IF o.ret.status = "raised"
          THEN [acc |-> Acc(acc.all_filtered_data, acc.total_points + len(f.table),
                            acc.total_kept),
                progress |-> report(prog, idx, n),
                result |-> FileResult("filter_error", NoReturn)]
          ELSE [acc |-> accumulate(acc, o.ret), progress |-> report(prog, idx, n),
                result |-> FileResult("filtered", o.ret)] :
             o \in select_method(m, params, f.table)}

\* lines 219-252: the ways one iteration of the loop, on file f at 0-based
\* position idx of n, can end: the accumulators, the progress reported so
\* far, and what happened to the file
iteration(f, idx, n, m, params, acc, prog) ==
    IF ~f.readable
    THEN \* pd.read_csv raises: except, pass
         {[acc |-> acc, progress |-> report(prog, idx, n),
           result |-> FileResult("read_error", NoReturn)]}
    ELSE IF empty(f.table)
    THEN \* continue
         {[acc |-> acc, progress |-> prog, result |-> FileResult("empty", NoReturn)]}
    ELSE IF m \notin {"dbscan", "sliding_median", "percentile"}
    THEN \* continue
         {[acc |-> acc, progress |-> prog,
           result |-> FileResult("unknown_method", NoReturn)]}
    ELSE {IF o.ret.status = "raised"
          THEN [acc |-> acc, progress |-> report(prog, idx, n),
                result |-> FileResult("filter_error", NoReturn)]
          ELSE [acc |-> accumulate(acc, o.ret), progress |-> report(prog, idx, n),
                result |-> FileResult("filtered", o.ret)] :
             o \in select_method(m, params, f.table)}

RECURSIVE concat_rows(_, _)
\* the frames' rows one frame after the other, each row widened to cols with
\* missing cells
concat_rows(frames, cols) ==
    IF frames = <<>> THEN <<>>
    ELSE LET d == Head(frames)
             widened == [i \in 1..Len(d.rows) |->
                           [idx |-> d.rows[i].idx,
                            cell |-> [c \in cols |->
                                        IF c \in d.cols THEN d.rows[i].cell[c]
                                        ELSE NaN]]]
         IN widened \o concat_rows(Tail(frames), cols)

\* pd.concat(frames, ignore_index=True): the union of the columns, the rows in
\* list order, the index renumbered 0..m-1
concat(frames) ==
    LET cols == UNION {frames[i].cols : i \in 1..Len(frames)}
        rows == concat_rows(frames, cols)
    IN DataFrame(cols, [i \in 1..Len(rows) |-> [idx |-> i - 1, cell |-> rows[i].cell]])

\* lines 259-264
merge(frames) == IF frames # <<>> THEN concat(frames) ELSE EmptyDataFrame

FilterIdle ==
    /\ df = EmptyDataFrame
    /\ given = EmptyDataFrame
    /\ call = <<"none">>
    /\ ret = NoReturn
    /\ work = EmptyDataFrame
    /\ labels = <<>>

\* lines 205-214: the call is made, the accumulators are empty and progress 0
\* has been shown
BatchInit ==
    /\ FilterIdle
    /\ MoreIdle
    /\ csv_files \in UNION {[1..n -> CsvCatalogue] : n \in 0..MaxFiles}
    /\ \E mp \in BatchMethods : method = mp[1] /\ method_params = mp[2]
    /\ file_idx = 0
    /\ all_filtered_data = <<>>
    /\ total_points = 0
    /\ total_kept = 0
    /\ progress = <<Fraction(0, 1)>>
    /\ file_results = <<>>
    /\ attempts = [i \in 1..Len(csv_files) |-> 0]
    /\ merged_df = EmptyDataFrame
    /\ phase = "loop"

\* next_file as a bug would have it: an exception ends the loop (no
\* try/except inside it)
next_file_abort(idx, n, result) ==
    IF result.kind \in {"read_error", "filter_error"} THEN n ELSE idx + 1

\* line 216: the position the for loop takes after the iteration at idx of n,
\* whatever happened to the file
next_file(idx, n, result) == idx + 1

\* one iteration of the for loop
ProcessFile ==
    /\ phase = "loop"
    /\ file_idx < Len(csv_files)
    /\ \E e \in iteration(csv_files[file_idx + 1], file_idx, Len(csv_files), method,
                          method_params,
                          Acc(all_filtered_data, total_points, total_kept), progress) :
          /\ all_filtered_data' = e.acc.all_filtered_data
          /\ total_points' = e.acc.total_points
          /\ total_kept' = e.acc.total_kept
          /\ progress' = e.progress
          /\ file_results' = Append(file_results, e.result)
          /\ file_idx' = next_file(file_idx, Len(csv_files), e.result)
    /\ attempts' = [attempts EXCEPT ![file_idx + 1] = IF @ < 2 THEN @ + 1 ELSE @]
    /\ UNCHANGED <<csv_files, method, method_params, merged_df, phase>>
    /\ UNCHANGED filter_vars
    /\ UNCHANGED more_vars

\* the loop is over: merge and return
ReturnBatch ==
    /\ phase = "loop"
    /\ file_idx >= Len(csv_files)
    /\ merged_df' = merge(all_filtered_data)
    /\ phase' = "done"
    /\ UNCHANGED <<csv_files, method, method_params, file_idx, all_filtered_data,
                   total_points, total_kept, progress, file_results, attempts>>
    /\ UNCHANGED filter_vars
    /\ UNCHANGED more_vars

BatchNext == ProcessFile \/ ReturnBatch

\* the loop moves on to the next file (every ProcessFile step is one, and
\* one is possible whenever a file is left)
LoopAdvances ==
    /\ phase = "loop"
    /\ file_idx < Len(csv_files)
    /\ file_idx' = file_idx + 1

\* The driver is straight-line code in one thread: while a file is left the
\* loop takes its next iteration, and after the loop the function returns.
BatchSpec ==
    BatchInit /\ [][BatchNext]_vars /\ WF_file_idx(LoopAdvances) /\ WF_vars(ReturnBatch)

(***************************************************************************)
(* The files of a batch handled independently, in any order of completion, *)
(* and their results merged by position in csv_files.                      *)
(***************************************************************************)
\* the files and methods such a batch is drawn from
ParallelCatalogue ==
    {Unreadable,
     Csv(TableOf(<<NaN>>, <<>>)),
     Csv(TableOf(<<0, 0>>, <<>>)),
     Csv(TableOf(<<0, 1, 1>>, <<>>)),
     Csv(TableOf(<<1, 1, 0>>, <<2, 1, 0>>))}

ParallelMethods ==
    {<<"dbscan", [eps_along |-> 1, eps_height |-> 1, min_samples |-> 2]>>,
     <<"sliding_median", [window_size |-> 2, threshold_std |-> 1]>>,
     <<"percentile", [lower_percentile |-> 25, upper_percentile |-> 75]>>}

\* lines 208-210: accumulators nothing has been added to
NoAcc == Acc(<<>>, 0, 0)

\* a file not handled yet
Pending == [acc |-> NoAcc, result |-> FileResult("pending", NoReturn)]

RECURSIVE loop_from(_, _, _, _, _, _)
\* lines 216-252: the accumulators after the for loop has run from position
\* idx to the end of files, starting with accumulators acc, when what
\* happened to each file is results
loop_from(files, idx, m, params, acc, results) ==
    IF idx >= Len(files) THEN acc
    ELSE LET e == CHOOSE x \in iteration(files[idx + 1], idx, Len(files), m, params,
                                         acc, <<>>) :
                     x.result = results[idx + 1]
         IN loop_from(files, next_file(idx, Len(files), e.result), m, params, e.acc,
                      results)

\* lines 208-266: what batch_process_csv_files returns when what happened to
\* each file is results
batch_process_csv_files(files, m, params, results) ==
    LET acc == loop_from(files, 0, m, params, NoAcc, results)
    IN <<merge(acc.all_filtered_data), acc.total_points, acc.total_kept>>

RECURSIVE joined(_, _)
\* the accumulators of the files at the positions order, added up in that
\* order
joined(parts, order) ==
    IF order = <<>> THEN NoAcc
    ELSE LET rest == joined(parts, SubSeq(order, 1, Len(order) - 1))
             part == parts[order[Len(order)]].acc
         IN Acc(rest.all_filtered_data \o part.all_filtered_data,
                rest.total_points + part.total_points,
                rest.total_kept + part.total_kept)

\* the positions of csv_files in input order
input_order(n) == [i \in 1..n |-> i]

ParallelInit ==
    /\ FilterIdle
    /\ call2 = <<"none">>
    /\ ret2 = NoReturn
    /\ stats = NoStats
    /\ SessionIdle
    /\ DownloadIdle
    /\ csv_files \in UNION {[1..n -> ParallelCatalogue] : n \in 0..MaxFiles}
    /\ \E mp \in ParallelMethods : method = mp[1] /\ method_params = mp[2]
    /\ contrib = [i \in 1..Len(csv_files) |-> Pending]
    /\ completion = <<>>
    /\ file_idx = 0
    /\ all_filtered_data = <<>>
    /\ total_points = 0
    /\ total_kept = 0
    /\ progress = <<Fraction(0, 1)>>
    /\ file_results = <<>>
    /\ attempts = [i \in 1..Len(csv_files) |-> 0]
    /\ merged_df = EmptyDataFrame
    /\ phase = "workers"

\* the body of the loop run on one file that is still pending, with
\* accumulators of its own
HandleFile ==
    /\ phase = "workers"
    /\ \E i \in 1..Len(csv_files) :
          /\ contrib[i] = Pending
          /\ \E e \in iteration(csv_files[i], i - 1, Len(csv_files), method,
                                method_params, NoAcc, <<>>) :
                contrib' = [contrib EXCEPT ![i] = [acc |-> e.acc, result |-> e.result]]
          /\ completion' = Append(completion, i)
    /\ UNCHANGED batch_vars
    /\ UNCHANGED filter_vars
    /\ UNCHANGED <<call2, ret2, stats, phase>>
    /\ UNCHANGED session_vars
    /\ UNCHANGED download_vars

\* every file is handled: the files' accumulators are added up by position
\* in csv_files, merged and returned
MergeByIndex ==
    /\ phase = "workers"
    /\ Len(completion) = Len(csv_files)
    /\ LET acc == joined(contrib, input_order(Len(csv_files)))
       IN /\ all_filtered_data' = acc.all_filtered_data
          /\ total_points' = acc.total_points
          /\ total_kept' = acc.total_kept
          /\ merged_df' = merge(acc.all_filtered_data)
    /\ file_results' = [i \in 1..Len(csv_files) |-> contrib[i].result]
    /\ phase' = "done"
    /\ UNCHANGED <<csv_files, method, method_params, file_idx, progress, attempts>>
    /\ UNCHANGED filter_vars
    /\ UNCHANGED more_vars

ParallelNext == HandleFile \/ MergeByIndex

ParallelSpec == ParallelInit /\ [][ParallelNext]_vars

(***************************************************************************)
(* The Streamlit session: app.py's main() and the processing tab, one       *)
(* script run per user interaction.                                         *)
(***************************************************************************)
\* Python's None, and a value that is not None
None == {}

Some(v) == {v}

\* st.session_state.key = v
setattr(s, key, v) == [k \in DOMAIN s \cup {key} |-> IF k = key THEN v ELSE s[k]]

\* del st.session_state.key
delattr(s, key) == [k \in DOMAIN s \ {key} |-> s[k]]

\* app.py 23-44: every key that is not there yet gets its default
initialize_session(s) ==
    LET defaults == [data_downloaded |-> FALSE,
                     data_processed |-> FALSE,
                     current_bbox |-> None,
                     current_geometry |-> None,
                     icesat2_data |-> None,
                     processed_data |-> None,
                     csv_dir |-> None]
    IN [k \in DOMAIN s \cup DOMAIN defaults |->
          IF k \in DOMAIN s THEN s[k] ELSE defaults[k]]

\* reset_on_region_change as a bug would have it: the processed data kept
\* when the region changes
reset_on_region_change_keep_processed(s) ==
    LET s1 == setattr(s, "data_downloaded", FALSE)
        s3 == setattr(s1, "icesat2_data", None)
        s5 == setattr(s3, "download_dir", None)
        s6 == setattr(s5, "csv_dir", None)
    IN s6

\* app.py 174-182: the state reset after the study region changed
reset_on_region_change(s) ==
    LET s1 == setattr(s, "data_downloaded", FALSE)
        s2 == setattr(s1, "data_processed", FALSE)
        s3 == setattr(s2, "icesat2_data", None)
        s4 == setattr(s3, "processed_data", None)
        s5 == setattr(s4, "download_dir", None)
        s6 == setattr(s5, "csv_dir", None)
    IN IF "processing_stats" \in DOMAIN s6 THEN delattr(s6, "processing_stats") ELSE s6

\* app.py 159-187 (tab1): render_area_selector returned (geometry, bbox);
\* selected is None or the bbox, whose geometry comes with it
select_region(s, selected) ==
    IF selected = None THEN s
    ELSE LET bbox_changed == s.current_bbox = None \/ s.current_bbox # selected
             cleared == IF bbox_changed /\ s.current_bbox # None
                        THEN reset_on_region_change(s)
                        ELSE s
         IN setattr(setattr(cleared, "current_geometry", selected), "current_bbox",
                    selected)

\* icesat2_downloader.py 208-254 (tab2): the download button was pressed with
\* a valid date range and download_icesat2_data returned success
render_download_interface(s, success) ==
    IF s.current_bbox = None THEN s
    ELSE IF success
    THEN setattr(setattr(s, "data_downloaded", TRUE), "download_dir", Some("h5"))
    ELSE s

\* app.py 192-220 (tab3): the convert button was pressed and batch_h5_to_csv
\* returned count
convert_h5(s, count) ==
    IF ~s.data_downloaded THEN s
    ELSE IF count > 0 THEN setattr(s, "csv_dir", Some("csv"))
    ELSE s

\* data_processing_ui.py 327-331
processing_stats(r) ==
    [total_points |-> r.total,
     kept_points |-> r.kept,
     retention_rate |-> IF r.total > 0 THEN Ratio(r.kept * 100, r.total)
                        ELSE Ratio(0, 1)]

\* data_processing_ui.py 325-331: the result kept in the session
store_result(s, r) ==
    LET s1 == setattr(s, "processed_data", Some(r.filtered))
        s2 == setattr(s1, "data_processed", TRUE)
    IN setattr(s2, "processing_stats", processing_stats(r))

\* how the body of the try of data_processing_ui.py 301-343 ends, the
\* process button pressed: batch_process_csv_files raised ("raised"),
\* returned no rows ("rejected"), returned rows that could not be written
\* ("save_failed": mkdir or to_csv raised) or rows that were written
\* ("stored")
ProcessEnds == {"raised", "rejected", "save_failed", "stored"}

\* data_processing_ui.py 99-346 (tab4): the process button was pressed, CSV
\* files were found when csv_found, and the try ended as ends with
\* batch_process_csv_files returning r
render_data_processing_interface(s, csv_found, ends, r) ==
    IF ~s.data_downloaded THEN s
    ELSE IF "download_dir" \notin DOMAIN s THEN s
    ELSE IF ~csv_found THEN s
    ELSE IF ends = "stored" THEN store_result(s, r)
    ELSE s

RECURSIVE loop_ends(_, _, _, _, _)
\* data_processor.py 216-252: the accumulators the for loop can end with
\* when it runs from position idx on with accumulators acc
loop_ends(files, idx, m, params, acc) ==
    IF idx >= Len(files) THEN {acc}
    ELSE UNION {loop_ends(files, next_file(idx, Len(files), e.result), m, params, e.acc) :
                  e \in iteration(files[idx + 1], idx, Len(files), m, params, acc, <<>>)}

\* what batch_process_csv_files(files, m, params) can return
batch_returns(files, m, params) ==
    {Returned(merge(a.all_filtered_data), a.total_points, a.total_kept) :
       a \in loop_ends(files, 0, m, params, NoAcc)}

\* the study regions drawn
Regions == {"A", "B"}

\* the CSV files of a session and the selections processed: one file or all
UiCatalogue ==
    {Unreadable,
     Csv(TableOf(<<NaN>>, <<>>)),
     Csv(TableOf(<<0, 0>>, <<>>)),
     Csv(TableOf(<<0, 1, 1>>, <<>>))}

UiSelections == UNION {[1..n -> UiCatalogue] : n \in {1, 2}}

\* what batch_process_csv_files returns in such a session
UiBatchReturns ==
    UNION {batch_returns(f, mp[1], mp[2]) : f \in UiSelections, mp \in ParallelMethods}

\* a script run: what it was (kind), and for a processing run how its try
\* ended and what batch_process_csv_files returned
UiRun(kind, ends, r) == [kind |-> kind, ends |-> ends, ret |-> r]

SessionInit ==
    /\ FilterIdle
    /\ call2 = <<"none">>
    /\ ret2 = NoReturn
    /\ stats = NoStats
    /\ ParallelIdle
    /\ DownloadIdle
    /\ BatchIdle
    /\ session_state = initialize_session(<<>>)
    /\ ui_run = UiRun("first", "none", NoReturn)
    /\ phase = "session"

\* the rest of the model is not touched by a script run
SessionFrame ==
    /\ UNCHANGED filter_vars
    /\ UNCHANGED batch_vars
    /\ UNCHANGED <<call2, ret2, stats, phase>>
    /\ UNCHANGED parallel_vars
    /\ UNCHANGED download_vars

\* a script run after the user drew or loaded a region (or removed it)
RunSelectRegion ==
    /\ phase = "session"
    /\ \E selected \in {None} \cup {Some(b) : b \in Regions} :
          session_state' = select_region(initialize_session(session_state), selected)
    /\ ui_run' = UiRun("region", "none", NoReturn)
    /\ SessionFrame

\* a script run after the download button was pressed
RunDownload ==
    /\ phase = "session"
    /\ \E success \in BOOLEAN :
          session_state' = render_download_interface(initialize_session(session_state),
                                                     success)
    /\ ui_run' = UiRun("download", "none", NoReturn)
    /\ SessionFrame

\* a script run after the convert button was pressed
RunConvert ==
    /\ phase = "session"
    /\ \E count \in {0, 1} :
          session_state' = convert_h5(initialize_session(session_state), count)
    /\ ui_run' = UiRun("convert", "none", NoReturn)
    /\ SessionFrame

\* a script run after the process button was pressed
RunProcess ==
    /\ phase = "session"
    /\ session_state.data_downloaded
    /\ "download_dir" \in DOMAIN session_state
    /\ \E ends \in ProcessEnds :
          \E r \in IF ends = "raised" THEN {NoReturn}
                   ELSE IF ends = "rejected" THEN {x \in UiBatchReturns : empty(x.filtered)}
                   ELSE {x \in UiBatchReturns : ~empty(x.filtered)} :
             /\ session_state' = render_data_processing_interface(
                                    initialize_session(session_state), TRUE, ends, r)
             /\ ui_run' = UiRun("process", ends, r)
    /\ SessionFrame

SessionNext == RunSelectRegion \/ RunDownload \/ RunConvert \/ RunProcess

SessionSpec == SessionInit /\ [][SessionNext]_vars

(***************************************************************************)
(* download_icesat2_data: authentication, query, and the attempts to order *)
(* and download with their waits.                                           *)
(***************************************************************************)
\* an entry of download_log: what happened, and for a wait how long
Event(what, seconds) == [what |-> what, seconds |-> seconds]

\* the values of retry_delay tried; time.sleep rejects a negative one
RetryDelays == {-1, 1, 30}

\* should_retry as a bug would have it: attempt < max_retries, a wait after
\* the last attempt too
should_retry_after_last(a, m) == a < m

\* icesat2_downloader.py 167: another attempt follows the one that raised
should_retry(a, m) == a < m - 1

\* icesat2_downloader.py 107: range(max_retries) has a value after a
has_next(a, m) == a + 1 < m

\* the call is made; nothing has happened yet
DownloadInit ==
    /\ FilterIdle
    /\ call2 = <<"none">>
    /\ ret2 = NoReturn
    /\ stats = NoStats
    /\ ParallelIdle
    /\ SessionIdle
    /\ BatchIdle
    /\ max_retries \in 0..MaxRetries
    /\ retry_delay \in RetryDelays
    /\ attempt = -1
    /\ download_log = <<>>
    /\ download_ret = "none"
    /\ phase = "authenticate"

\* the rest of the model is not touched by the download
DownloadFrame ==
    /\ UNCHANGED filter_vars
    /\ UNCHANGED batch_vars
    /\ UNCHANGED <<call2, ret2, stats>>
    /\ UNCHANGED parallel_vars
    /\ UNCHANGED session_vars
    /\ UNCHANGED <<max_retries, retry_delay>>

\* return value
Return(value) ==
    /\ download_ret' = value
    /\ phase' = "returned"

\* lines 75-76: authenticate_earthdata() returned authenticated
Authenticate ==
    /\ phase = "authenticate"
    /\ \E authenticated \in BOOLEAN :
          IF authenticated
          THEN /\ download_log' = Append(download_log, Event("authenticated", 0))
               /\ phase' = "query"
               /\ UNCHANGED download_ret
          ELSE /\ Return("False")
               /\ UNCHANGED download_log
    /\ UNCHANGED attempt
    /\ DownloadFrame

\* lines 78-104: the query is built (or building it raises and the outer
\* except returns False) and the granules are counted (or counting raises,
\* which is only reported)
BuildQuery ==
    /\ phase = "query"
    /\ \E ends \in {"query_raised", "granules_counted", "granules_unknown"} :
          /\ download_log' = Append(download_log, Event(ends, 0))
          /\ IF ends = "query_raised"
             THEN Return("False")
             ELSE phase' = "loop" /\ UNCHANGED download_ret
    /\ UNCHANGED attempt
    /\ DownloadFrame

\* lines 107-174 up to the wait: one iteration of the for loop, ending with
\* .h5 files found, none found, or an exception
Attempt ==
    /\ phase = "loop"
    /\ has_next(attempt, max_retries)
    /\ attempt' = attempt + 1
    /\ \E ends \in {"found", "not_found", "raised"} :
          /\ download_log' = Append(download_log, Event(ends, 0))
          /\ IF ends = "found" THEN Return("True")
             ELSE IF ends = "not_found" THEN Return("False")
             ELSE IF should_retry(attempt', max_retries)
             THEN phase' = "wait" /\ UNCHANGED download_ret
             ELSE Return("False")
    /\ DownloadFrame

\* line 169: time.sleep(retry_delay), then the next iteration; a negative
\* retry_delay makes time.sleep raise ValueError inside the except clause,
\* which the outer except (line 178) turns into return False
Wait ==
    /\ phase = "wait"
    /\ IF retry_delay < 0
       THEN /\ download_log' = Append(download_log, Event("sleep_raised", 0))
            /\ Return("False")
       ELSE /\ download_log' = Append(download_log, Event("sleep", retry_delay))
            /\ phase' = "loop"
            /\ UNCHANGED download_ret
    /\ UNCHANGED attempt
    /\ DownloadFrame

\* line 176: the loop is over without a return
Exhausted ==
    /\ phase = "loop"
    /\ ~has_next(attempt, max_retries)
    /\ Return("False")
    /\ UNCHANGED <<attempt, download_log>>
    /\ DownloadFrame

DownloadNext == Authenticate \/ BuildQuery \/ Attempt \/ Wait \/ Exhausted

DownloadSpec == DownloadInit /\ [][DownloadNext]_vars

(***************************************************************************)
(* A filter called a second time on the same dataset with other            *)
(* parameters.                                                             *)
(***************************************************************************)
\* the second call ends as outcome o
EndsAgain(c, o) ==
    /\ call2' = c
    /\ ret2' = o.ret
    /\ df' = o.df
    /\ phase' = "again"
    /\ UNCHANGED <<given, call, ret, work, labels, stats>>
    /\ UNCHANGED extra_vars
    /\ UNCHANGED batch_vars

\* elevations of the datasets handed to the percentile filter
PercentileHeights == {1, 2, 5, NaN}

\* the elevations 1..9 and an outlier
Scenario == TableOf(<<1, 2, 3, 4, 5, 6, 7, 8, 9, 100>>, <<>>)

PercentileDatasets ==
    {TableOf(hs, <<>>) :
        hs \in UNION {[1..n -> PercentileHeights] : n \in 0..MaxPercentileRows}}
      \cup {Scenario}

\* percentile bounds; a call takes two of them, lower < upper
Percentiles == {0, 10, 25, 75, 90, 100}

PercentileInit ==
    /\ df \in PercentileDatasets
    /\ given = df
    /\ call = <<"none">>
    /\ ret = NoReturn
    /\ work = EmptyDataFrame
    /\ labels = <<>>
    /\ phase = "call"
    /\ MoreIdle
    /\ BatchIdle

\* method_middle_percentile called with 0 <= lower < upper <= 100
CallPercentileInOrder ==
    /\ phase = "call"
    /\ \E lower_percentile, upper_percentile \in Percentiles :
         /\ lower_percentile < upper_percentile
         /\ \E o \in method_middle_percentile(<<df>>, lower_percentile, upper_percentile) :
               Ends(<<"percentile", lower_percentile, upper_percentile>>, o)

\* ... and called again on the same dataset with a tighter interval
CallPercentileTighter ==
    /\ phase = "returned"
    /\ call[1] = "percentile"
    /\ \E lower_percentile, upper_percentile \in Percentiles :
         /\ lower_percentile < upper_percentile
         /\ call[2] <= lower_percentile
         /\ upper_percentile <= call[3]
         /\ <<lower_percentile, upper_percentile>> # <<call[2], call[3]>>
         /\ \E o \in method_middle_percentile(<<df>>, lower_percentile, upper_percentile) :
               EndsAgain(<<"percentile", lower_percentile, upper_percentile>>, o)

PercentileNext == CallPercentileInOrder \/ CallPercentileTighter

PercentileSpec == PercentileInit /\ [][PercentileNext]_vars

\* method_sliding_median called again on the same dataset with the same
\* window_size and a larger threshold_std.  The sort is a function of the
\* column it sorts: rows with equal delta_time come in the order they came in
\* the first call.
CallSlidingMedianWider ==
    /\ phase = "returned"
    /\ call[1] = "sliding_median"
    /\ \E threshold_std \in Thresholds :
         /\ threshold_std > call[3]
         /\ \E o \in method_sliding_median_in_order(<<df>>, call[2], threshold_std,
                                                     index(work)) :
               EndsAgain(<<"sliding_median", call[2], threshold_std>>, o)

SlidingNext == CallSlidingMedian \/ CallSlidingMedianWider

SlidingSpec == Init /\ [][SlidingNext]_vars

(***************************************************************************)
(* calculate_water_level_statistics called on a dataset.                    *)
(***************************************************************************)
\* elevations of the datasets handed to the statistics
StatsHeights == {0, 1, 3, NaN}

\* tables with an elevation column, and tables without one
StatsDatasets ==
    {TableOf(hs, <<>>) :
        hs \in UNION {[1..n -> StatsHeights] : n \in 0..MaxStatsRows}}
      \cup Tables(0, {"lat"}) \cup Tables(1, {"lat"}) \cup Tables(2, {"lat"})

StatsInit ==
    /\ df \in StatsDatasets
    /\ given = df
    /\ call = <<"none">>
    /\ ret = NoReturn
    /\ work = EmptyDataFrame
    /\ labels = <<>>
    /\ phase = "call"
    /\ MoreIdle
    /\ BatchIdle

\* stats = calculate_water_level_statistics(df); df is only read
CallStatistics ==
    /\ phase = "call"
    /\ stats' = [status |-> "returned", record |-> calculate_water_level_statistics(df)]
    /\ phase' = "returned"
    /\ UNCHANGED <<df, given, call, ret, work, labels, call2, ret2>>
    /\ UNCHANGED extra_vars
    /\ UNCHANGED batch_vars

StatsSpec == StatsInit /\ [][CallStatistics]_vars

(***************************************************************************)
(* Properties of the filters (checked under Spec).                          *)
(***************************************************************************)
\* the positions of d's rows carrying index label L
PositionsOf(d, L) == {i \in 1..Len(d.rows) : d.rows[i].idx = L}

\* C1: whenever a filter returns (filtered, total, kept), kept is the number
\* of rows of filtered and is at most total.
C1_CountsAgree ==
    (phase = "returned" /\ ret.status = "returned")
      => (ret.kept = Len(ret.filtered.rows) /\ ret.kept <= ret.total)

\* C1's case: the sliding-median filter, on a table it had to reorder, kept
\* some rows and rejected others.
C1_Witness ==
    /\ phase = "returned"
    /\ call[1] = "sliding_median"
    /\ ret.status = "returned"
    /\ 0 < ret.kept
    /\ ret.kept < ret.total
    /\ index(work) # index(given)

\* C2: every row a filter returns is a row of the input, returned once, and
\* carries every column of the input with the input's value.
C2_RowsPassThrough ==
    (phase = "returned" /\ ret.status = "returned")
      => /\ \A k \in 1..Len(ret.filtered.rows) :
              LET r == ret.filtered.rows[k]
              IN /\ \E i \in 1..Len(given.rows) :
                       /\ given.rows[i].idx = r.idx
                       /\ \A c \in given.cols :
                             /\ c \in ret.filtered.cols
                             /\ r.cell[c] = given.rows[i].cell[c]
                 /\ PositionsOf(ret.filtered, r.idx) = {k}

\* C3: after a call of a filter, however it ended, the caller's DataFrame is
\* what it was when the call was made.
C3_InputUntouched ==
    phase = "returned" => df = given

\* C3's case: the clustering filter, on a table without delta_time (so that no
\* sort stands between the copy and the input), wrote its along_track column
\* and returned rows.
C3_Witness ==
    /\ phase = "returned"
    /\ call[1] = "dbscan"
    /\ "delta_time" \notin given.cols
    /\ "along_track" \in work.cols
    /\ "along_track" \notin given.cols
    /\ ret.kept > 0
    /\ df = given

\* work holds given's rows in along-track order: ascending delta_time when
\* the column is there, else the input's order
AlongTrackOrder ==
    /\ Len(work.rows) = Len(given.rows)
    /\ \A i \in 1..Len(given.rows) : Cardinality(PositionsOf(work, given.rows[i].idx)) = 1
    /\ \A k \in 1..Len(work.rows) :
          \E i \in 1..Len(given.rows) :
             /\ given.rows[i].idx = work.rows[k].idx
             /\ given.rows[i].cell["ht_water_surf"] = work.rows[k].cell["ht_water_surf"]
    /\ IF "delta_time" \in given.cols
       THEN \A k \in 1..(Len(work.rows) - 1) :
               work.rows[k].cell["delta_time"] <= work.rows[k + 1].cell["delta_time"]
       ELSE index(work) = index(given)

\* the clusters DBSCAN found
Clusters == {labels[i] : i \in 1..Len(labels)} \ {-1}

\* C10: when DBSCAN finds a cluster, method_dbscan_elliptical returns exactly
\* the rows of one cluster that no other cluster exceeds in size, in
\* along-track order, with total the input's length and kept the cluster's
\* size.
C10_LargestCluster ==
    (phase = "returned" /\ call[1] = "dbscan" /\ Clusters # {})
      => /\ ret.status = "returned"
         /\ AlongTrackOrder
         /\ ret.total = Len(given.rows)
         /\ \E c \in Clusters :
               /\ \A c2 \in Clusters : cluster_size(labels, c2) <= cluster_size(labels, c)
               /\ ret.kept = cluster_size(labels, c)
               /\ index(ret.filtered) =
                    index(DataFrame(work.cols,
                                    SelectSeq2(work.rows,
                                               [i \in 1..Len(labels) |-> labels[i] = c])))

\* C10's case: two clusters of different sizes on a table the sort reordered;
\* the larger was returned.
C10_Witness ==
    /\ phase = "returned"
    /\ call[1] = "dbscan"
    /\ Cardinality(Clusters) = 2
    /\ \E c, c2 \in Clusters : cluster_size(labels, c2) < cluster_size(labels, c)
    /\ index(work) # index(given)
    /\ ret.kept = 2
    /\ ret.total = 3

\* C11: on a dataset of n points with an elevation column,
\* method_dbscan_elliptical returns (pd.DataFrame(), n, 0) and does not raise
\* when n is less than min_samples, and when DBSCAN ran and labelled every
\* point as noise.
C11_NoClusterIsEmpty ==
    (/\ phase = "returned"
     /\ call[1] = "dbscan"
     /\ "ht_water_surf" \in given.cols
     /\ \/ Len(given.rows) < call[4]
        \/ labels # <<>> /\ Clusters = {})
      => ret = Returned(EmptyDataFrame, Len(given.rows), 0)

\* C11's case: DBSCAN ran on at least min_samples points, two of them or
\* more, and labelled them all noise; the call returned.
C11_Witness ==
    /\ phase = "returned"
    /\ call[1] = "dbscan"
    /\ Len(given.rows) >= 2
    /\ Len(given.rows) >= call[4]
    /\ Len(labels) = Len(given.rows)
    /\ \A i \in 1..Len(labels) : labels[i] = -1
    /\ ret = Returned(EmptyDataFrame, Len(given.rows), 0)

\* C17: each of the three filters, called on a dataset without rows or
\* without the column ht_water_surf, returns an empty table with total 0 and
\* kept 0, and does not raise.
C17_NothingToFilter ==
    (phase = "returned" /\ (Len(given.rows) = 0 \/ "ht_water_surf" \notin given.cols))
      => /\ ret.status = "returned"
         /\ empty(ret.filtered)
         /\ ret.total = 0
         /\ ret.kept = 0

\* C17's case: a filter was called on a table that has rows but no elevation
\* column, and returned.
C17_Witness ==
    /\ phase = "returned"
    /\ call[1] = "sliding_median"
    /\ Len(given.rows) >= 2
    /\ "ht_water_surf" \notin given.cols
    /\ ret = Returned(EmptyDataFrame, 0, 0)

\* the call's parameters are in the ranges the filters are specified for:
\* positive radii, min_samples and window_size, a threshold that is not
\* negative, 0 <= lower < upper <= 100
ValidParameters ==
    \/ call[1] = "dbscan" /\ call[2] > 0 /\ call[3] > 0 /\ call[4] > 0
    \/ call[1] = "sliding_median" /\ call[2] > 0 /\ call[3] >= 0
    \/ call[1] = "percentile" /\ 0 <= call[2] /\ call[2] < call[3] /\ call[3] <= 100

\* the input has rows and an elevation column, and every elevation is missing
AllNull ==
    /\ Len(given.rows) > 0
    /\ "ht_water_surf" \in given.cols
    /\ \A i \in 1..Len(given.rows) : isna(given.rows[i].cell["ht_water_surf"])

\* C18: each of the three filters, called with valid parameters on a dataset
\* that has rows and whose elevations are all missing, does not raise and
\* returns an empty table with kept 0.
C18_AllNullIsEmpty ==
    (phase = "returned" /\ AllNull /\ ValidParameters)
      => /\ ret.status = "returned"
         /\ empty(ret.filtered)
         /\ ret.kept = 0

\* C20: a filter called with a parameter out of range (a radius, min_samples
\* or window_size not positive, a percentile outside [0, 100], or lower not
\* below upper) on a dataset with rows and an elevation column, so that the
\* parameters are used, ends with an error and returns no result.
C20_InvalidParametersRejected ==
    (/\ phase = "returned"
     /\ Len(given.rows) > 0
     /\ "ht_water_surf" \in given.cols
     /\ ~ValidParameters)
      => ret.status = "raised"

(***************************************************************************)
(* Properties of the percentile filter (checked under PercentileSpec).      *)
(***************************************************************************)
\* the input's elevations, and those of them that are not missing
GivenHeights == values(given, "ht_water_surf")

ValidHeights == dropna(GivenHeights)

\* 100 * e lies between 100 * q_lower and 100 * q_upper of the call made
InInterval(e) ==
    /\ ~isna(e)
    /\ ValidHeights # <<>>
    /\ percentile100(ValidHeights, call[2]) <= 100 * e
    /\ 100 * e <= percentile100(ValidHeights, call[3])

\* C12: when method_middle_percentile returns for 0 <= lower < upper <= 100,
\* every retained row has its elevation in [q_lower, q_upper], every input
\* row with its elevation in that interval is retained, and the retained rows
\* are in the input's order.
C12_ClosedInterval ==
    (call[1] = "percentile" /\ ret.status = "returned")
      => /\ \A k \in 1..Len(ret.filtered.rows) :
               InInterval(ret.filtered.rows[k].cell["ht_water_surf"])
         /\ \A i \in 1..Len(given.rows) :
               InInterval(GivenHeights[i])
                  => \E k \in 1..Len(ret.filtered.rows) :
                        ret.filtered.rows[k] = given.rows[i]
         /\ \A k \in 1..(Len(ret.filtered.rows) - 1) :
               ret.filtered.rows[k].idx < ret.filtered.rows[k + 1].idx

\* C12's case: of an input with a missing elevation the filter kept two rows
\* or more, one of them with its elevation on a bound of the interval, and
\* rejected a row whose elevation is not missing.
C12_Witness ==
    /\ phase = "returned"
    /\ call[1] = "percentile"
    /\ ret.status = "returned"
    /\ ret.kept >= 2
    /\ \E i \in 1..Len(given.rows) : isna(GivenHeights[i])
    /\ \E k \in 1..Len(ret.filtered.rows) :
          100 * ret.filtered.rows[k].cell["ht_water_surf"]
             \in {percentile100(ValidHeights, call[2]), percentile100(ValidHeights, call[3])}
    /\ \E i \in 1..Len(given.rows) :
          /\ ~isna(GivenHeights[i])
          /\ \A k \in 1..Len(ret.filtered.rows) : ret.filtered.rows[k] # given.rows[i]

\* the call of the scenario: elevations 1..9 and 100, percentiles 10 and 90
ScenarioCalled ==
    /\ given = Scenario
    /\ call = <<"percentile", 10, 90>>
    /\ ret.status # "none"

\* the elevations of the rows returned, in order
RetainedHeights == values(ret.filtered, "ht_water_surf")

\* C13 as stated: in the scenario q10 is 1.9 and q90 is 8.1, and the filter
\* returns the seven rows with elevations 2..8.
C13_ScenarioAsStated ==
    ScenarioCalled
      => /\ ret.status = "returned"
         /\ percentile100(ValidHeights, 10) = 190
         /\ percentile100(ValidHeights, 90) = 810
         /\ RetainedHeights = <<2, 3, 4, 5, 6, 7, 8>>
         /\ ret.kept = 7

\* C13 as amended: in the scenario q10 is 1.9 and q90 is 18.1 (virtual index
\* 8.1, one tenth of the way from 9 to 100), and the filter returns the eight
\* rows with elevations 2..9 out of ten; 1 and 100 are rejected.
C13_ScenarioAmended ==
    ScenarioCalled
      => /\ ret.status = "returned"
         /\ percentile100(ValidHeights, 10) = 190
         /\ percentile100(ValidHeights, 90) = 1810
         /\ RetainedHeights = <<2, 3, 4, 5, 6, 7, 8, 9>>
         /\ ret.total = 10
         /\ ret.kept = 8

\* C13's case: the scenario's call has been made and has returned rows.
C13_Witness ==
    /\ phase = "returned"
    /\ ScenarioCalled
    /\ ret.status = "returned"
    /\ ret.kept > 0
    /\ ret.kept < ret.total

\* C14: when method_middle_percentile has returned for an interval and
\* returns again, on the same dataset, for a tighter interval (lower not
\* smaller, upper not larger, 0 <= lower < upper <= 100 both times), the
\* second retained count is at most the first.
C14_TighterKeepsNoMore ==
    (/\ phase = "again"
     /\ call[1] = "percentile"
     /\ ret.status = "returned"
     /\ ret2.status = "returned")
      => ret2.kept <= ret.kept

\* C14's case: the tighter interval (both bounds moved) kept fewer rows, but
\* not none.
C14_Witness ==
    /\ phase = "again"
    /\ call[1] = "percentile"
    /\ call2[2] > call[2]
    /\ call2[3] < call[3]
    /\ ret.status = "returned"
    /\ ret2.status = "returned"
    /\ 0 < ret2.kept
    /\ ret2.kept < ret.kept

(***************************************************************************)
(* Properties of the sliding-median filter (checked under SlidingSpec).     *)
(***************************************************************************)
\* the index labels of the rows of d
Labels(d) == {d.rows[k].idx : k \in 1..Len(d.rows)}

\* C15: when method_sliding_median has returned and returns again, on the
\* same dataset and window_size, for a larger threshold_std, every row kept
\* the first time is kept the second time, and the second retained count is
\* at least the first.
C15_WiderKeepsNoLess ==
    (/\ phase = "again"
     /\ call[1] = "sliding_median"
     /\ ret.status = "returned"
     /\ ret2.status = "returned")
      => /\ ret2.kept >= ret.kept
         /\ Labels(ret.filtered) \subseteq Labels(ret2.filtered)

\* C15's case: in the windowed branch, on a table the sort reordered, the
\* larger threshold kept a row more than the smaller, which kept some.
C15_Witness ==
    /\ phase = "again"
    /\ call[1] = "sliding_median"
    /\ Len(given.rows) >= call[2]
    /\ index(work) # index(given)
    /\ ret.status = "returned"
    /\ ret2.status = "returned"
    /\ 0 < ret.kept
    /\ ret.kept < ret2.kept

(***************************************************************************)
(* Properties of the statistics (checked under StatsSpec).                  *)
(***************************************************************************)
\* the dataset has an elevation column with a value that is not missing
HasValidHeight == "ht_water_surf" \in given.cols /\ ValidHeights # <<>>

\* C16: for a dataset with at least one valid elevation the record returned
\* by calculate_water_level_statistics has q25 <= median <= q75 and
\* iqr = q75 - q25 >= 0, and with four valid elevations or more
\* min <= middle_50_mean <= max.
C16_StatisticsOrdered ==
    (stats.status = "returned" /\ HasValidHeight)
      => LET r == stats.record
         IN /\ DOMAIN r # {}
            /\ r.count = Len(ValidHeights)
            /\ r.q25_100 <= 50 * r.median2
            /\ 50 * r.median2 <= r.q75_100
            /\ r.iqr_100 = r.q75_100 - r.q25_100
            /\ r.iqr_100 >= 0
            /\ r.count >= 4
                 => /\ r.middle_50_mean.den > 0
                    /\ r.min * r.middle_50_mean.den <= r.middle_50_mean.num
                    /\ r.middle_50_mean.num <= r.max * r.middle_50_mean.den

\* C16's case: the statistics of a dataset with a missing elevation and four
\* valid ones or more, where q25 < median < q75 and the mean of the middle
\* half is not the mean.
C16_Witness ==
    /\ stats.status = "returned"
    /\ HasValidHeight
    /\ Len(ValidHeights) < Len(given.rows)
    /\ stats.record.count >= 4
    /\ stats.record.q25_100 < 50 * stats.record.median2
    /\ 50 * stats.record.median2 < stats.record.q75_100
    /\ stats.record.middle_50_mean.num * stats.record.mean.den
          # stats.record.mean.num * stats.record.middle_50_mean.den

\* C19: calculate_water_level_statistics returns the empty mapping when the
\* dataset has no rows, when it has no elevation column, and when every
\* elevation is missing.
C19_NoDataNoStatistics ==
    (stats.status = "returned"
       /\ (Len(given.rows) = 0 \/ "ht_water_surf" \notin given.cols \/ AllNull))
      => DOMAIN stats.record = {}

(***************************************************************************)
(* Properties of the batch driver (checked under BatchSpec).                *)
(***************************************************************************)
Last(s) == s[Len(s)]

\* this step handled one more file
Handled == Len(file_results') = Len(file_results) + 1

RECURSIVE SumTotal(_)
\* the totals returned by the filter, summed over the files it returned for
SumTotal(results) ==
    IF results = <<>> THEN 0
    ELSE (IF Head(results).kind = "filtered" THEN Head(results).ret.total ELSE 0)
         + SumTotal(Tail(results))

RECURSIVE SumKept(_)
\* the retained counts returned by the filter, summed likewise
SumKept(results) ==
    IF results = <<>> THEN 0
    ELSE (IF Head(results).kind = "filtered" THEN Head(results).ret.kept ELSE 0)
         + SumKept(Tail(results))

RECURSIVE FilteredRows(_)
\* the rows the filter returned, file after file
FilteredRows(results) ==
    IF results = <<>> THEN <<>>
    ELSE Head(results).ret.filtered.rows \o FilteredRows(Tail(results))

\* C4: a file that cannot be read, a file that loads empty and a file on
\* which the filter raises are named as such, change neither total_points nor
\* total_kept nor the frames to merge, and the loop goes on to the next file;
\* when the batch returns every file has been handled.
C4_FailedFilesSkipped ==
    /\ [][(Handled /\ Last(file_results').kind \in {"read_error", "empty", "filter_error"})
            => /\ total_points' = total_points
               /\ total_kept' = total_kept
               /\ all_filtered_data' = all_filtered_data
               /\ file_idx' = file_idx + 1
               /\ phase' = "loop"]_vars
    /\ [](\A i \in 1..Len(file_results) :
             /\ ~csv_files[i].readable => file_results[i].kind = "read_error"
             /\ (csv_files[i].readable /\ empty(csv_files[i].table))
                   => file_results[i].kind = "empty")
    /\ [](phase = "done" => Len(file_results) = Len(csv_files))

\* C4's case: of three files the second cannot be read; the batch returned
\* with the totals of the first and the third.
C4_Witness ==
    /\ phase = "done"
    /\ Len(csv_files) = 3
    /\ ~csv_files[2].readable
    /\ file_results[1].kind = "filtered"
    /\ file_results[3].kind = "filtered"
    /\ file_results[1].ret.kept > 0
    /\ file_results[3].ret.kept > 0
    /\ total_points = file_results[1].ret.total + file_results[3].ret.total
    /\ total_kept = file_results[1].ret.kept + file_results[3].ret.kept

\* C5: total_kept is the sum of the retained counts and total_points the sum
\* of the totals of the files the filter returned for; the merged table has
\* total_kept rows.
C5_BatchTotals ==
    /\ total_kept = SumKept(file_results)
    /\ total_points = SumTotal(file_results)
    /\ phase = "done" => Len(merged_df.rows) = total_kept

\* C5's case: a batch in which one file raised in the filter or on read, one
\* was rejected whole and one kept some of its rows.
C5_Witness ==
    /\ phase = "done"
    /\ \E i \in 1..Len(file_results) : file_results[i].kind \in {"read_error", "filter_error"}
    /\ \E i \in 1..Len(file_results) :
          /\ file_results[i].kind = "filtered"
          /\ file_results[i].ret.kept = 0
          /\ file_results[i].ret.total > 0
    /\ Len(all_filtered_data) = 1
    /\ total_kept > 0
    /\ total_points > total_kept

\* C6: the merged table holds the rows the filter returned for the first
\* file, in the order it returned them, then those of the second file, and so
\* on; the rows returned for file i are rows of file i.
C6_MergeOrder ==
    /\ \A i \in 1..Len(file_results) :
          \A k \in 1..Len(file_results[i].ret.filtered.rows) :
             LET r == file_results[i].ret.filtered.rows[k]
             IN \E j \in 1..Len(csv_files[i].table.rows) :
                   /\ csv_files[i].table.rows[j].idx = r.idx
                   /\ csv_files[i].table.rows[j].cell["lat"] = r.cell["lat"]
    /\ phase = "done" =>
          LET expected == FilteredRows(file_results)
          IN /\ Len(merged_df.rows) = Len(expected)
             /\ \A k \in 1..Len(expected) :
                   \A c \in DOMAIN expected[k].cell :
                      /\ c \in merged_df.cols
                      /\ merged_df.rows[k].cell[c] = expected[k].cell[c]

\* C6's case: two files kept rows, the frames differ, and one of them came
\* back from the filter in an order that is not the file's.
C6_Witness ==
    /\ phase = "done"
    /\ Len(all_filtered_data) >= 2
    /\ all_filtered_data[1] # all_filtered_data[2]
    /\ \E i \in 1..Len(all_filtered_data) : index(all_filtered_data[i]) = <<1, 0>>
    /\ Len(merged_df.rows) >= 4

\* C7: a file the filter returned for with nothing retained adds the total
\* the filter returned (the file's row count, when it has an elevation
\* column) to total_points, and changes neither total_kept nor the frames to
\* merge.
C7_RejectedFileCounted ==
    [][(Handled /\ Last(file_results').kind = "filtered" /\ Last(file_results').ret.kept = 0)
         => /\ total_points' = total_points + Last(file_results').ret.total
            /\ total_kept' = total_kept
            /\ all_filtered_data' = all_filtered_data
            /\ "ht_water_surf" \in csv_files[file_idx + 1].table.cols
                  => Last(file_results').ret.total = Len(csv_files[file_idx + 1].table.rows)]_vars

\* C7's case: a batch returned in which a file of several rows was rejected
\* whole and another file kept rows.
C7_Witness ==
    /\ phase = "done"
    /\ total_kept > 0
    /\ \E i \in 1..Len(file_results) :
          /\ file_results[i].kind = "filtered"
          /\ file_results[i].ret.kept = 0
          /\ file_results[i].ret.total >= 2
          /\ total_points >= total_kept + file_results[i].ret.total

\* C8: with one of the three filters chosen, after the k-th of N files has
\* been handled (filtered, skipped as empty, or failed), progress k/N has been
\* reported (after the initial 0), so that a batch of at least one file ends
\* with progress 1.
C8_ProgressAfterEach ==
    method \in {"dbscan", "sliding_median", "percentile"}
      => /\ Len(progress) = file_idx + 1
         /\ \A k \in 1..file_idx :
               k + 1 <= Len(progress) =>
                  progress[k + 1].num * Len(csv_files) = k * progress[k + 1].den
         /\ (phase = "done" /\ Len(csv_files) > 0)
               => Last(progress).num = Last(progress).den

\* C9: no file is read twice, and the batch returns with every file read
\* exactly once.
C9_SinglePassTerminates ==
    /\ [](\A i \in 1..Len(attempts) : attempts[i] <= 1)
    /\ <>(phase = "done" /\ \A i \in 1..Len(attempts) : attempts[i] = 1)

\* C9's case: a batch of three files, one unreadable and one on which the
\* filter raised, has returned.
C9_Witness ==
    /\ phase = "done"
    /\ Len(csv_files) = 3
    /\ \E i \in 1..3 : file_results[i].kind = "read_error"
    /\ \E i \in 1..3 : file_results[i].kind = "filter_error"
    /\ \A i \in 1..3 : attempts[i] = 1

\* C22: a batch of no files returns total_points = 0; a batch of at least one
\* file in which every file holds rows and the filter returned for every file
\* with nothing retained returns total_points > 0 and total_kept = 0, so that
\* the two results differ.
C22_RejectedIsNotNoFiles ==
    phase = "done"
      => /\ Len(csv_files) = 0 => total_points = 0
         /\ (/\ Len(csv_files) >= 1
             /\ \A i \in 1..Len(csv_files) :
                   /\ Len(csv_files[i].table.rows) > 0
                   /\ file_results[i].kind = "filtered"
                   /\ file_results[i].ret.kept = 0)
               => (total_points > 0 /\ total_kept = 0)

\* C23: when the files of a batch are handled independently of each other in
\* any order of completion and their results are merged by position in
\* csv_files, the merged rows, total_points and total_kept are those the
\* sequential loop of batch_process_csv_files returns for the same files.
C23_MergeByIndexIsSequential ==
    phase = "done"
      => <<merged_df, total_points, total_kept>>
           = batch_process_csv_files(csv_files, method, method_params, file_results)

\* three files, the last one handled first, of which two keep different rows
\* and one raises
C23_Witness ==
    /\ phase = "done"
    /\ Len(completion) = 3
    /\ completion[1] = 3
    /\ \E i, j \in 1..3 :
          /\ i < j
          /\ contrib[i].result.kind = "filtered"
          /\ contrib[j].result.kind = "filtered"
          /\ contrib[i].acc.all_filtered_data # <<>>
          /\ contrib[j].acc.all_filtered_data # <<>>
          /\ contrib[i].acc.all_filtered_data # contrib[j].acc.all_filtered_data
    /\ \E i \in 1..3 : contrib[i].result.kind \in {"read_error", "filter_error"}

\* |heights[i] - local median| <= threshold_std * local std, the local
\* statistics taken over the centred window of width window_size cut at the
\* ends of the sequence; a point that is its window's only value lies on its
\* median and passes
WithinLocalBand(heights, window_size, threshold_std, i) ==
    LET valid == dropna(rolling_window(heights, window_size, i))
        c == Len(valid)
        dev2 == 2 * heights[i] - median2(valid)
    IN /\ ~isna(heights[i])
       /\ \/ c = 1
          \/ dev2 * dev2 * c * (c - 1)
               <= 4 * threshold_std * threshold_std * var_num(valid)

\* the sliding-median filter was called with 1 <= window_size <= n on a table
\* of n rows that has the elevation column
WindowedCall ==
    /\ phase = "returned"
    /\ call[1] = "sliding_median"
    /\ "ht_water_surf" \in given.cols
    /\ call[2] >= 1
    /\ Len(given.rows) >= call[2]

\* C24: called with 1 <= window_size <= n, method_sliding_median returns, of
\* the rows in along-track order, exactly those whose elevation lies within
\* threshold_std local standard deviations of the local median of the centred
\* window cut at the ends of the sequence; a point at an end is judged on its
\* smaller window and passes when it lies on that window's median.
C24_WindowedKeepsLocalBand ==
    WindowedCall
      => /\ ret.status = "returned"
         /\ ret.filtered.rows
              = SelectSeq2(work.rows,
                           [k \in 1..Len(work.rows) |->
                              WithinLocalBand(values(work, "ht_water_surf"),
                                              call[2], call[3], k)])

\* |heights[i] - global median| <= threshold_std * global std (the root of
\* the mean squared deviation from the mean), as numpy evaluates it: a
\* missing elevation makes the median nan and no comparison true
WithinGlobalBand(heights, threshold_std, i) ==
    LET n == Len(heights)
        dev2 == 2 * heights[i] - median2(heights)
    IN /\ \A k \in 1..n : ~isna(heights[k])
       /\ dev2 * dev2 * n * n
            <= 4 * threshold_std * threshold_std * (n * Sum(Squares(heights))
                                                     - Sum(heights) * Sum(heights))

\* the sliding-median filter was called with window_size > n on a table of n
\* rows that has the elevation column
GlobalCall ==
    /\ phase = "returned"
    /\ call[1] = "sliding_median"
    /\ "ht_water_surf" \in given.cols
    /\ Len(given.rows) < call[2]

\* C25: called with window_size > n, method_sliding_median returns, in
\* along-track order (ascending delta_time when the column is there, else the
\* input's order), exactly the rows whose elevation lies within threshold_std
\* global standard deviations of the global median, and total = n.
C25_GlobalFallback ==
    GlobalCall
      => /\ ret.status = "returned"
         /\ ret.total = Len(given.rows)
         /\ Len(given.rows) > 0 => AlongTrackOrder
         /\ ret.filtered.rows
              = SelectSeq2(work.rows,
                           [k \in 1..Len(work.rows) |->
                              WithinGlobalBand(values(work, "ht_water_surf"), call[3], k)])

\* three rows out of time order, window_size 4: some kept, some rejected
C25_Witness ==
    /\ GlobalCall
    /\ Len(given.rows) = 3
    /\ "delta_time" \in given.cols
    /\ given.rows[1].cell["delta_time"] > given.rows[2].cell["delta_time"]
    /\ index(work) # index(given)
    /\ 0 < ret.kept
    /\ ret.kept < ret.total

\* the number of positions of x holding v
Occurrences(x, v) == Cardinality({i \in 1..Len(x) : x[i] = v})

\* the elevations x in ascending order of rank: the non-decreasing sequence
\* holding each value as often as x does
RankSorted(x) ==
    CHOOSE s \in [1..Len(x) -> {x[i] : i \in 1..Len(x)}] :
       /\ \A k \in 1..(Len(x) - 1) : s[k] <= s[k + 1]
       /\ \A i \in 1..Len(x) : Occurrences(s, x[i]) = Occurrences(x, x[i])

\* C26: for n valid elevations, n >= 4, middle_50_mean is the mean of the
\* elevations at the 0-based ranks floor(n / 4) up to but excluding
\* floor(3n / 4) of the ascending order, a slice that is not empty; for
\* 1 <= n < 4 it is the mean of all valid elevations.
C26_MiddleHalfMean ==
    (stats.status = "returned" /\ HasValidHeight)
      => LET n == Len(ValidHeights)
             lo == n \div 4
             hi == (3 * n) \div 4
             slice == SubSeq(RankSorted(ValidHeights), lo + 1, hi)
             m == stats.record.middle_50_mean
         IN /\ m.den > 0
            /\ n >= 4 => /\ Len(slice) >= 1
                         /\ m.num * Len(slice) = Sum(slice) * m.den
            /\ n < 4 => m.num * n = Sum(ValidHeights) * m.den

\* four valid elevations given out of rank order and a missing one; the mean
\* of the middle half is not the mean
C26_Witness ==
    /\ stats.status = "returned"
    /\ Len(given.rows) = 5
    /\ Len(ValidHeights) = 4
    /\ ValidHeights # RankSorted(ValidHeights)
    /\ stats.record.middle_50_mean.num * stats.record.mean.den
          # stats.record.mean.num * stats.record.middle_50_mean.den

(***************************************************************************)
(* Properties of the session (checked under SessionSpec).                   *)
(***************************************************************************)
\* data_processed, processed_data and processing_stats (or its absence)
ProcessedTriple(s) ==
    <<s.data_processed, s.processed_data,
      IF "processing_stats" \in DOMAIN s THEN {s.processing_stats} ELSE {}>>

\* data_processed only with a dataset that has rows and with statistics that
\* count its rows
SessionConsistent ==
    session_state.data_processed
      => /\ session_state.processed_data # None
         /\ \A d \in session_state.processed_data :
               /\ ~empty(d)
               /\ "processing_stats" \in DOMAIN session_state
               /\ session_state.processing_stats.kept_points = len(d)
               /\ session_state.processing_stats.total_points >= len(d)

\* this script run was a processing run that kept rows and stored them
StoredRun == ui_run'.kind = "process" /\ ui_run'.ends = "stored"

\* this script run found a region other than the one the session had
RegionChanged ==
    /\ ui_run'.kind = "region"
    /\ session_state.current_bbox # None
    /\ session_state'.current_bbox # session_state.current_bbox

\* what a script run does to the three
RunEffects ==
    /\ StoredRun
         => /\ session_state'.data_processed
            /\ session_state'.processed_data = Some(ui_run'.ret.filtered)
            /\ "processing_stats" \in DOMAIN session_state'
            /\ session_state'.processing_stats.total_points = ui_run'.ret.total
            /\ session_state'.processing_stats.kept_points = ui_run'.ret.kept
    /\ (ui_run'.kind = "process" /\ ui_run'.ends # "stored")
         => ProcessedTriple(session_state') = ProcessedTriple(session_state)
    /\ RegionChanged
         => /\ ~session_state'.data_processed
            /\ session_state'.processed_data = None
            /\ "processing_stats" \notin DOMAIN session_state'
    /\ (session_state'.data_processed /\ ~StoredRun)
         => ProcessedTriple(session_state') = ProcessedTriple(session_state)

\* C27: over any sequence of script runs, data_processed is true only while
\* processed_data holds a dataset with rows and processing_stats the totals
\* of the run that stored it; a processing run that retains nothing, or
\* raises, leaves the three as they were; a change of region from a region
\* (not from None) sets data_processed to False, processed_data to None and
\* removes processing_stats.
C27_SessionFlags == []SessionConsistent /\ [][RunEffects]_vars

\* a processing run that retained nothing, made when the session held the
\* result of an earlier run that had rejected some points
C27_Witness ==
    /\ phase = "session"
    /\ ui_run.kind = "process"
    /\ ui_run.ends = "rejected"
    /\ ui_run.ret.total > 0
    /\ session_state.data_processed
    /\ session_state.processing_stats.kept_points
         < session_state.processing_stats.total_points

(***************************************************************************)
(* Properties of the download (checked under DownloadSpec).                 *)
(***************************************************************************)
\* the positions of download_log holding an attempt, and those that raised
AttemptsMade ==
    {i \in 1..Len(download_log) :
       download_log[i].what \in {"found", "not_found", "raised"}}

AttemptsRaised == {i \in 1..Len(download_log) : download_log[i].what = "raised"}

Authenticated == \E i \in 1..Len(download_log) : download_log[i].what = "authenticated"

\* C28: after successful authentication at most max_retries attempts are
\* made; an attempt that does not raise is the last one, and the call returns
\* True when it found .h5 files and False when it found none; every wait
\* lasts retry_delay, follows an attempt that raised and is followed by
\* another attempt (none after the last); what follows an attempt that
\* raised, unless it was the last one allowed, is the wait (or time.sleep's
\* refusal of a negative retry_delay); once max_retries attempts have raised
\* the call has returned False, and with max_retries = 0 it returns False
\* without an attempt.
C28_BoundedRetries ==
    Authenticated
      => /\ Cardinality(AttemptsMade) <= max_retries
         /\ \A i \in AttemptsMade :
               download_log[i].what # "raised"
                 => /\ i = Len(download_log)
                    /\ phase = "returned"
                    /\ download_ret
                         = IF download_log[i].what = "found" THEN "True" ELSE "False"
         /\ \A i \in 1..Len(download_log) :
               download_log[i].what = "sleep"
                 => /\ download_log[i].seconds = retry_delay
                    /\ i > 1
                    /\ download_log[i - 1].what = "raised"
                    /\ Cardinality({k \in AttemptsMade : k < i}) < max_retries
                    /\ phase = "returned"
                         => /\ i < Len(download_log)
                            /\ download_log[i + 1].what
                                 \in {"found", "not_found", "raised"}
         /\ \A i \in AttemptsRaised :
               (i < Len(download_log) /\ Cardinality({k \in AttemptsMade : k <= i}) < max_retries)
                 => download_log[i + 1].what \in {"sleep", "sleep_raised"}
         /\ (max_retries > 0 /\ Cardinality(AttemptsRaised) = max_retries)
               => phase = "returned" /\ download_ret = "False"
         /\ (max_retries = 0 /\ phase = "returned")
               => AttemptsMade = {} /\ download_ret = "False"

\* three attempts allowed: two raised, each followed by a wait, and the
\* third found files
C28_Witness ==
    /\ phase = "returned"
    /\ max_retries = 3
    /\ Cardinality(AttemptsRaised) = 2
    /\ Cardinality({i \in 1..Len(download_log) : download_log[i].what = "sleep"}) = 2
    /\ download_log[Len(download_log)].what = "found"
    /\ download_ret = "True"

=============================================================================
